---- MODULE Spec2Model ----
(***************************************************************************)
(* Model of the mock CRUD API (src/src/services/api.ts over the in-memory  *)
(* collections of src/src/lib/mockData.ts) and of the landing page         *)
(* generation pipeline.                                                    *)
(*                                                                         *)
(* Conventions.                                                            *)
(*  - A JavaScript string is a sequence of one-character strings, so that  *)
(*    toLowerCase, includes and the relational operators are computed.     *)
(*  - A price is a number of cents; a timestamp '2024-01-DDTHH:MM:00Z' is  *)
(*    the number DDHHMM, whose numeric order is the lexicographic order of *)
(*    the ISO strings.                                                     *)
(*  - Objects live in one heap per record type (userObjs, productObjs,     *)
(*    orderObjs); a collection is a sequence of references (heap indices), *)
(*    so that two holders of one reference share the object, as in the     *)
(*    code.  Reference 0 is undefined / null.                              *)
(***************************************************************************)
EXTENDS Integers, Sequences, FiniteSets, TLC

VARIABLES
  engine,        \* which Array.prototype.sort implementation the build runs on
  userObjs,      \* heap of User objects
  productObjs,   \* heap of Product objects
  orderObjs,     \* heap of Order objects
  mockUsers,     \* the array mockUsers: references into userObjs
  mockProducts,  \* the array mockProducts: references into productObjs
  mockOrders,    \* the array mockOrders: references into orderObjs
  clock,         \* what getCurrentTimestamp() returns next
  budget,        \* store-changing steps the exploration may still take
  ret,           \* the outcome of the last call, as the caller sees it
  paged,         \* a client paging through one query: the pages fetched so far
  progressCallback, \* LandingPageGenerator: whether a progress callback was given
  request,       \* the GenerateLandingPageRequest of the run
  pc,            \* where the generateLandingPage run stands
  attempts,      \* pollTaskCompletion's attempts
  locals,        \* productInfo, classification, theme, content of the run
  processedImages, \* processProductImages' processedImages
  trace,         \* what the run has done so far, in order
  landingPage,   \* the LandingPageData the run returned
  formData,      \* the CODFormData a customer has filled in
  response,      \* what codOrderService.submitOrder resolved with
  processedOrders, \* the order ids processOrder has logged as processed
  productUrl,    \* the productUrl handed to useGenerateLandingPage's generate
  mutation,      \* the state of the hook's mutation
  runs,          \* the generateLandingPage runs generate has started, in order
  progressState, \* useGenerateLandingPage: the progress state
  landingPageData, \* useGenerateLandingPage: the run whose result is held
  mutationError, \* useGenerateLandingPage: whether error is set
  currentStep,   \* useLandingPageState: the step of the page
  publishedUrl,  \* useLandingPageState: whether a URL was published
  inFlight       \* the calls of the user operations issued together

storeVars == <<userObjs, productObjs, orderObjs, mockUsers, mockProducts, mockOrders>>
generation == <<progressCallback, request, pc, attempts, locals, processedImages,
                trace, landingPage>>
checkout == <<formData, response, processedOrders>>
pageVars == <<runs, progressState, landingPageData, mutationError, currentStep,
              publishedUrl>>
hook == <<productUrl, mutation, pageVars, inFlight>>
vars == <<engine, userObjs, productObjs, orderObjs, mockUsers, mockProducts,
          mockOrders, clock, budget, ret, paged, generation, checkout, hook>>

----------------------------------------------------------------------------
(* Bounds of the model. *)

\* store-changing steps explored from the mock data, all operations (Spec)
MaxOps == 1
\* store-changing steps explored, user operations alone (UserSpec)
MaxUserOps == 3
\* store-changing steps explored, ordering and its catalogue (OrderSpec)
MaxOrderOps == 3
\* records of a drawn collection (QuerySpec)
MaxLen == 3
\* highest page number a list call asks for
MaxPage == 3
\* generateLandingPage runs one page or caller starts (RunsSpec, PageSpec)
MaxRuns == 2
\* calls of the user operations issued together (ConcurrentSpec)
MaxCalls == 2

----------------------------------------------------------------------------
(* Strings. *)

\* The characters that occur, in code-unit order.
Chars ==
  <<" ", "&", ",", "-", ".", "0", "1", "2", "3", "4", "5", "6", "7", "8", "9", "@",
    "A", "B", "C", "D", "E", "F", "G", "H", "I", "J", "K", "L", "M",
    "N", "O", "P", "Q", "R", "S", "T", "U", "V", "W", "X", "Y", "Z",
    "a", "b", "c", "d", "e", "f", "g", "h", "i", "j", "k", "l", "m",
    "n", "o", "p", "q", "r", "s", "t", "u", "v", "w", "x", "y", "z">>

\* Position of a character in code-unit order.
CodeTable == [c \in {Chars[i] : i \in 1..Len(Chars)} |->
                CHOOSE i \in 1..Len(Chars) : Chars[i] = c]
Code(c) == CodeTable[c]

\* The lower-case form of each character: A..Z map to a..z.
LowerTable == [c \in {Chars[i] : i \in 1..Len(Chars)} |->
                 IF Code("A") <= Code(c) /\ Code(c) <= Code("Z")
                 THEN Chars[Code(c) + (Code("a") - Code("A"))]
                 ELSE c]

\* String.prototype.toLowerCase
ToLowerCase(s) == [i \in 1..Len(s) |-> LowerTable[s[i]]]

\* String.prototype.includes
Includes(s, sub) ==
  \E k \in 0..(Len(s) - Len(sub)) : \A i \in 1..Len(sub) : s[k + i] = sub[i]

\* A sort key: a string as its code units, a number as a one-element sequence.
StrKey(s) == [i \in 1..Len(s) |-> Code(s[i])]
NumKey(n) == <<n>>

\* a > b of JavaScript on two keys of the same type: by code unit for strings
\* (a proper prefix is smaller), by value for numbers.
RECURSIVE Greater(_, _)
Greater(a, b) ==
  IF a = <<>> THEN FALSE
  ELSE IF b = <<>> THEN TRUE
  ELSE IF Head(a) # Head(b) THEN Head(a) > Head(b)
  ELSE Greater(Tail(a), Tail(b))

----------------------------------------------------------------------------
(* Array.prototype.sort.  The elements sorted are records [key, val]. *)

\* The comparators the code passes to sort.
Compare(cmp, a, b) ==
  CASE cmp = "desc"   -> IF Greater(b, a) THEN 1 ELSE -1
    [] cmp = "asc"    -> IF Greater(a, b) THEN 1 ELSE -1
    [] cmp = "recent" -> b[1] - a[1]
    [] cmp = "top"    -> b[1] - a[1]

Reverse(s) == [i \in 1..Len(s) |-> s[Len(s) + 1 - i]]

\* s with the element at position from moved to position to (to <= from).
MoveTo(s, from, to) ==
  [i \in 1..Len(s) |->
     IF i < to \/ i > from THEN s[i] ELSE IF i = to THEN s[from] ELSE s[i - 1]]

\* V8 (third_party/v8/builtins/array-sort.tq), arrays shorter than 64: the
\* initial run is counted, reversed when descending, and the rest is inserted
\* by binary search.  idx is 1-based; the result is the run's length.
RECURSIVE CountRun(_, _, _, _)
CountRun(s, cmp, isDescending, idx) ==
  IF idx > Len(s) THEN idx - 1
  ELSE LET order == Compare(cmp, s[idx].key, s[idx - 1].key)
       IN IF (isDescending /\ order >= 0) \/ (~isDescending /\ order < 0)
          THEN idx - 1
          ELSE CountRun(s, cmp, isDescending, idx + 1)

\* left, right are 0-based as in V8; the pivot is inserted at the result.
RECURSIVE BinarySearch(_, _, _, _, _)
BinarySearch(s, cmp, pivot, left, right) ==
  IF left >= right THEN left
  ELSE LET mid == left + ((right - left) \div 2)
       IN IF Compare(cmp, pivot.key, s[mid + 1].key) < 0
          THEN BinarySearch(s, cmp, pivot, left, mid)
          ELSE BinarySearch(s, cmp, pivot, mid + 1, right)

\* start is the number of elements already in order.
RECURSIVE BinaryInsertionSort(_, _, _)
BinaryInsertionSort(s, cmp, start) ==
  IF start >= Len(s) THEN s
  ELSE LET left == BinarySearch(s, cmp, s[start + 1], 0, start)
       IN BinaryInsertionSort(MoveTo(s, start + 1, left + 1), cmp, start + 1)

TimSort(s, cmp) ==
  IF Len(s) < 2 THEN s
  ELSE LET isDescending == Compare(cmp, s[2].key, s[1].key) < 0
           run == CountRun(s, cmp, isDescending, 3)
           made == IF isDescending
                   THEN Reverse(SubSeq(s, 1, run)) \o SubSeq(s, run + 1, Len(s))
                   ELSE s
       IN BinaryInsertionSort(made, cmp, run)

\* SpiderMonkey's self-hosted InsertionSort (arrays shorter than 24): the item
\* moves left past every element that compares greater than it.
RECURSIVE InsertionPoint(_, _, _, _)
InsertionPoint(s, cmp, item, j) ==
  IF j < 1 THEN 1
  ELSE IF Compare(cmp, s[j].key, item.key) <= 0 THEN j + 1
  ELSE InsertionPoint(s, cmp, item, j - 1)

RECURSIVE InsertionSort(_, _, _)
InsertionSort(s, cmp, i) ==
  IF i > Len(s) THEN s
  ELSE InsertionSort(MoveTo(s, i, InsertionPoint(s, cmp, s[i], i - 1)), cmp, i + 1)

Engines == {"v8", "spidermonkey"}

\* sort with a comparator that is not consistent (it never answers 0) orders
\* the elements as the implementation happens to: the build's engine decides.
ArraySort(s, cmp) ==
  IF engine = "v8" THEN TimSort(s, cmp) ELSE InsertionSort(s, cmp, 2)

----------------------------------------------------------------------------
(* The three collections and the generic query helper. *)

Obj(kind, ref) ==
  CASE kind = "user"    -> userObjs[ref]
    [] kind = "product" -> productObjs[ref]
    [] kind = "order"   -> orderObjs[ref]

\* (a as any)[params.sortBy], as a sort key
SortValue(kind, ref, sortBy) ==
  CASE sortBy = "id"        -> StrKey(Obj(kind, ref).id)
    [] sortBy = "name"      -> StrKey(Obj(kind, ref).name)
    [] sortBy = "email"     -> StrKey(Obj(kind, ref).email)
    [] sortBy = "price"     -> NumKey(Obj(kind, ref).price)
    [] sortBy = "total"     -> NumKey(Obj(kind, ref).total)
    [] sortBy = "createdAt" -> NumKey(Obj(kind, ref).createdAt)
    [] sortBy = "updatedAt" -> NumKey(Obj(kind, ref).updatedAt)

\* the filterFn each list operation passes to filterAndPaginate
FilterFn(kind, ref, search) ==
  CASE kind = "user" ->
         \/ Includes(ToLowerCase(userObjs[ref].name), ToLowerCase(search))
         \/ Includes(ToLowerCase(userObjs[ref].email), ToLowerCase(search))
    [] kind = "product" ->
         \/ Includes(ToLowerCase(productObjs[ref].name), ToLowerCase(search))
         \/ Includes(ToLowerCase(productObjs[ref].description), ToLowerCase(search))
         \/ Includes(ToLowerCase(productObjs[ref].category), ToLowerCase(search))
    [] kind = "order" ->
         \/ Includes(ToLowerCase(orderObjs[ref].id), ToLowerCase(search))
         \/ /\ orderObjs[ref].user # 0
            /\ \/ Includes(ToLowerCase(userObjs[orderObjs[ref].user].name),
                            ToLowerCase(search))
               \/ Includes(ToLowerCase(userObjs[orderObjs[ref].user].email),
                            ToLowerCase(search))

\* params.limit || 10
DefaultLimit == 10
\* params.page || 1
DefaultPage == 1

\* a start index that counts the pages from zero
StartIndexFromZero(page, limit) == page * limit

StartIndex(page, limit) == (page - 1) * limit
EndIndex(startIndex, limit) == startIndex + limit

\* a slice that starts over from the first element when start is past the end
SliceClamped(s, start, end) ==
  SubSeq(s, IF start < Len(s) THEN start + 1 ELSE 1,
            IF end < Len(s) THEN end ELSE Len(s))

\* Array.prototype.slice(start, end) for 0 <= start <= end
Slice(s, start, end) ==
  SubSeq(s, start + 1, IF end < Len(s) THEN end ELSE Len(s))

\* Math.ceil(n / limit) for n >= 0, limit >= 1
CeilDiv(n, limit) == (n + limit - 1) \div limit

\* An unset parameter is 0, "" or <<>>: each is falsy, as undefined is.
NoParams ==
  [page |-> 0, limit |-> 0, search |-> <<>>, sortBy |-> "", sortOrder |-> "",
   category |-> <<>>, status |-> ""]

SortedData(data, params, kind) ==
  LET keyed == [i \in 1..Len(data) |->
                  [key |-> SortValue(kind, data[i], params.sortBy), val |-> data[i]]]
      sorted == ArraySort(keyed, IF params.sortOrder = "desc" THEN "desc" ELSE "asc")
  IN [i \in 1..Len(data) |-> sorted[i].val]

FilterAndPaginate(data, params, kind) ==
  LET matching == IF params.search # <<>>
                  THEN SelectSeq(data, LAMBDA r : FilterFn(kind, r, params.search))
                  ELSE data
      filteredData == IF params.sortBy # ""
                      THEN SortedData(matching, params, kind)
                      ELSE matching
      page == IF params.page # 0 THEN params.page ELSE DefaultPage
      limit == IF params.limit # 0 THEN params.limit ELSE DefaultLimit
      startIndex == StartIndex(page, limit)
      endIndex == EndIndex(startIndex, limit)
  IN [data |-> Slice(filteredData, startIndex, endIndex),
      pagination |-> [page |-> page, limit |-> limit,
                      total |-> Len(filteredData),
                      totalPages |-> CeilDiv(Len(filteredData), limit)]]

\* An array as a piece of code holds it: its elements, and whether it is the
\* collection itself (own) or another array of the same elements.
Own(data) == [items |-> data, own |-> TRUE]

\* a binding to the array itself, where the code takes a copy
Shared(array) == array

\* [...array]: a new array of the same elements
Spread(array) == [items |-> array.items, own |-> FALSE]

\* The array filterAndPaginate was handed, after the call: filteredData.sort
\* sorts in place the array filteredData names, which is the copy taken on
\* entry or what filter returned.
DataAfter(array, params, kind) ==
  LET filteredData == Spread(array)
      sorts == IF params.search # <<>>
               THEN [items |-> SelectSeq(filteredData.items,
                                         LAMBDA r : FilterFn(kind, r, params.search)),
                     own |-> FALSE]
               ELSE filteredData
  IN IF params.sortBy # "" /\ sorts.own
     THEN SortedData(sorts.items, params, kind)
     ELSE array.items

NoPagination == [page |-> 0, limit |-> 0, total |-> 0, totalPages |-> 0]

\* What a call hands back: status "ok" (the promise resolves), "transient"
\* (the injected random failure) or "notfound" (createErrorResponse on a
\* missing record; missing says of which kind).  ref and list are the
\* references in the response's data.
NoRet ==
  [op |-> "none", kind |-> "none", status |-> "ok", missing |-> "none",
   id |-> <<>>, fields |-> {}, ref |-> 0, list |-> <<>>,
   pagination |-> NoPagination, params |-> NoParams]

Transient(op, kind) ==
  [NoRet EXCEPT !.op = op, !.kind = kind, !.status = "transient"]

NotFound(op, kind, id, missing) ==
  [NoRet EXCEPT !.op = op, !.kind = kind, !.status = "notfound", !.id = id,
                !.missing = missing]

\* Array.prototype.findIndex(x => x.id === id), 1-based; 0 when there is none
FindIndex(data, kind, id) ==
  IF \E i \in 1..Len(data) : Obj(kind, data[i]).id = id
  THEN CHOOSE i \in 1..Len(data) :
         /\ Obj(kind, data[i]).id = id
         /\ \A j \in 1..(i - 1) : Obj(kind, data[j]).id # id
  ELSE 0

\* Array.prototype.find(x => x.id === id): the reference, 0 for undefined
Find(data, kind, id) ==
  IF FindIndex(data, kind, id) = 0 THEN 0 ELSE data[FindIndex(data, kind, id)]

\* Array.prototype.splice(index, 1)
Splice(data, index) ==
  [i \in 1..(Len(data) - 1) |-> IF i < index THEN data[i] ELSE data[i + 1]]

\* a merge that writes every property of the request type, absent ones as
\* empty values
Overwrite(object, partial) ==
  [f \in DOMAIN object |->
     IF f \in DOMAIN partial.vals THEN partial.vals[f] ELSE object[f]]

\* { ...object, ...partial }: partial.fields are the properties it has
Merge(object, partial) ==
  [f \in DOMAIN object |-> IF f \in partial.fields THEN partial.vals[f] ELSE object[f]]

----------------------------------------------------------------------------
(* The initial mock data (src/src/lib/mockData.ts). *)

InitUsers ==
  << [id |-> <<"1">>, name |-> <<"J", "o", "h", "n", " ", "D", "o", "e">>,
      email |-> <<"j", "o", "h", "n", ".", "d", "o", "e", "@", "e", "x", "a", "m", "p", "l", "e", ".", "c", "o", "m">>,
      role |-> "admin", createdAt |-> 151000, updatedAt |-> 151000],
     [id |-> <<"2">>, name |-> <<"J", "a", "n", "e", " ", "S", "m", "i", "t", "h">>,
      email |-> <<"j", "a", "n", "e", ".", "s", "m", "i", "t", "h", "@", "e", "x", "a", "m", "p", "l", "e", ".", "c", "o", "m">>,
      role |-> "user", createdAt |-> 161430, updatedAt |-> 161430],
     [id |-> <<"3">>, name |-> <<"M", "i", "k", "e", " ", "J", "o", "h", "n", "s", "o", "n">>,
      email |-> <<"m", "i", "k", "e", ".", "j", "o", "h", "n", "s", "o", "n", "@", "e", "x", "a", "m", "p", "l", "e", ".", "c", "o", "m">>,
      role |-> "moderator", createdAt |-> 170915, updatedAt |-> 170915],
     [id |-> <<"4">>, name |-> <<"S", "a", "r", "a", "h", " ", "W", "i", "l", "s", "o", "n">>,
      email |-> <<"s", "a", "r", "a", "h", ".", "w", "i", "l", "s", "o", "n", "@", "e", "x", "a", "m", "p", "l", "e", ".", "c", "o", "m">>,
      role |-> "user", createdAt |-> 181645, updatedAt |-> 181645] >>

InitProducts ==
  << [id |-> <<"1">>, name |-> <<"W", "i", "r", "e", "l", "e", "s", "s", " ", "B", "l", "u", "e", "t", "o", "o", "t", "h", " ", "H", "e", "a", "d", "p", "h", "o", "n", "e", "s">>,
      description |-> <<"H", "i", "g", "h", "-", "q", "u", "a", "l", "i", "t", "y", " ", "w", "i", "r", "e", "l", "e", "s", "s", " ", "h", "e", "a", "d", "p", "h", "o", "n", "e", "s", " ", "w", "i", "t", "h", " ", "n", "o", "i", "s", "e", " ", "c", "a", "n", "c", "e", "l", "l", "a", "t", "i", "o", "n", " ", "a", "n", "d", " ", "3", "0", "-", "h", "o", "u", "r", " ", "b", "a", "t", "t", "e", "r", "y", " ", "l", "i", "f", "e", ".">>,
      price |-> 19999, category |-> <<"E", "l", "e", "c", "t", "r", "o", "n", "i", "c", "s">>, stock |-> 50,
      createdAt |-> 100800, updatedAt |-> 100800],
     [id |-> <<"2">>, name |-> <<"S", "m", "a", "r", "t", " ", "W", "a", "t", "c", "h", " ", "S", "e", "r", "i", "e", "s", " ", "5">>,
      description |-> <<"A", "d", "v", "a", "n", "c", "e", "d", " ", "s", "m", "a", "r", "t", "w", "a", "t", "c", "h", " ", "w", "i", "t", "h", " ", "h", "e", "a", "l", "t", "h", " ", "m", "o", "n", "i", "t", "o", "r", "i", "n", "g", ",", " ", "G", "P", "S", ",", " ", "a", "n", "d", " ", "w", "a", "t", "e", "r", " ", "r", "e", "s", "i", "s", "t", "a", "n", "c", "e", ".">>,
      price |-> 29999, category |-> <<"E", "l", "e", "c", "t", "r", "o", "n", "i", "c", "s">>, stock |-> 30,
      createdAt |-> 111030, updatedAt |-> 111030],
     [id |-> <<"3">>, name |-> <<"E", "r", "g", "o", "n", "o", "m", "i", "c", " ", "O", "f", "f", "i", "c", "e", " ", "C", "h", "a", "i", "r">>,
      description |-> <<"C", "o", "m", "f", "o", "r", "t", "a", "b", "l", "e", " ", "o", "f", "f", "i", "c", "e", " ", "c", "h", "a", "i", "r", " ", "w", "i", "t", "h", " ", "l", "u", "m", "b", "a", "r", " ", "s", "u", "p", "p", "o", "r", "t", " ", "a", "n", "d", " ", "a", "d", "j", "u", "s", "t", "a", "b", "l", "e", " ", "h", "e", "i", "g", "h", "t", ".">>,
      price |-> 24999, category |-> <<"F", "u", "r", "n", "i", "t", "u", "r", "e">>, stock |-> 25,
      createdAt |-> 121200, updatedAt |-> 121200],
     [id |-> <<"4">>, name |-> <<"O", "r", "g", "a", "n", "i", "c", " ", "C", "o", "f", "f", "e", "e", " ", "B", "e", "a", "n", "s">>,
      description |-> <<"P", "r", "e", "m", "i", "u", "m", " ", "o", "r", "g", "a", "n", "i", "c", " ", "c", "o", "f", "f", "e", "e", " ", "b", "e", "a", "n", "s", " ", "s", "o", "u", "r", "c", "e", "d", " ", "f", "r", "o", "m", " ", "s", "u", "s", "t", "a", "i", "n", "a", "b", "l", "e", " ", "f", "a", "r", "m", "s", ".">>,
      price |-> 2499, category |-> <<"F", "o", "o", "d", " ", "&", " ", "B", "e", "v", "e", "r", "a", "g", "e">>, stock |-> 100,
      createdAt |-> 131415, updatedAt |-> 131415],
     [id |-> <<"5">>, name |-> <<"Y", "o", "g", "a", " ", "M", "a", "t", " ", "P", "r", "e", "m", "i", "u", "m">>,
      description |-> <<"N", "o", "n", "-", "s", "l", "i", "p", " ", "y", "o", "g", "a", " ", "m", "a", "t", " ", "m", "a", "d", "e", " ", "f", "r", "o", "m", " ", "e", "c", "o", "-", "f", "r", "i", "e", "n", "d", "l", "y", " ", "m", "a", "t", "e", "r", "i", "a", "l", "s", ".">>,
      price |-> 3999, category |-> <<"S", "p", "o", "r", "t", "s", " ", "&", " ", "F", "i", "t", "n", "e", "s", "s">>, stock |-> 75,
      createdAt |-> 141630, updatedAt |-> 141630] >>

InitOrders ==
  << [id |-> <<"1">>, userId |-> <<"2">>, user |-> 2,
      items |->
        << [id |-> <<"i", "t", "e", "m", "-", "1", "-", "0">>, productId |-> <<"1">>, product |-> 1, quantity |-> 1, price |-> 19999],
           [id |-> <<"i", "t", "e", "m", "-", "4", "-", "1">>, productId |-> <<"4">>, product |-> 4, quantity |-> 2, price |-> 2499] >>,
      total |-> 24997, status |-> "delivered", shippingAddress |-> 1,
      createdAt |-> 201000, updatedAt |-> 221530],
     [id |-> <<"2">>, userId |-> <<"4">>, user |-> 4,
      items |->
        << [id |-> <<"i", "t", "e", "m", "-", "2", "-", "0">>, productId |-> <<"2">>, product |-> 2, quantity |-> 1, price |-> 29999],
           [id |-> <<"i", "t", "e", "m", "-", "5", "-", "1">>, productId |-> <<"5">>, product |-> 5, quantity |-> 1, price |-> 3999] >>,
      total |-> 33998, status |-> "shipped", shippingAddress |-> 2,
      createdAt |-> 211400, updatedAt |-> 230915],
     [id |-> <<"3">>, userId |-> <<"2">>, user |-> 2,
      items |->
        << [id |-> <<"i", "t", "e", "m", "-", "3", "-", "0">>, productId |-> <<"3">>, product |-> 3, quantity |-> 1, price |-> 24999] >>,
      total |-> 24999, status |-> "processing", shippingAddress |-> 1,
      createdAt |-> 221630, updatedAt |-> 221630],
     [id |-> <<"4">>, userId |-> <<"3">>, user |-> 3,
      items |->
        << [id |-> <<"i", "t", "e", "m", "-", "1", "-", "0">>, productId |-> <<"1">>, product |-> 1, quantity |-> 2, price |-> 19999],
           [id |-> <<"i", "t", "e", "m", "-", "2", "-", "1">>, productId |-> <<"2">>, product |-> 2, quantity |-> 1, price |-> 29999],
           [id |-> <<"i", "t", "e", "m", "-", "4", "-", "2">>, productId |-> <<"4">>, product |-> 4, quantity |-> 3, price |-> 2499] >>,
      total |-> 77495, status |-> "pending", shippingAddress |-> 3,
      createdAt |-> 231145, updatedAt |-> 231145] >>

\* The first timestamp handed out after the mock data's latest (23 Jan).
Clock0 == 240000

\* generateId(): Math.random().toString(36).substr(2, 9).  Math.random() is
\* free to return 0.25 or 0.5, whose base 36 forms are "0.9" and "0.i"; the
\* model draws the id from these two results, and nothing keeps two calls
\* from returning the same one.
GenerateId == {<<"9">>, <<"i">>}

----------------------------------------------------------------------------
(* User operations.  err is what shouldSimulateError() answers. *)

GetUsersCall(params, err) ==
  /\ ret' = IF err THEN Transient("getUsers", "user")
            ELSE LET result == FilterAndPaginate(mockUsers, params, "user")
                 IN [NoRet EXCEPT !.op = "getUsers", !.kind = "user",
                                  !.list = result.data,
                                  !.pagination = result.pagination,
                                  !.params = params]
  /\ mockUsers' = IF err THEN mockUsers
                  ELSE DataAfter(Own(mockUsers), params, "user")
  /\ UNCHANGED <<engine, generation, checkout, hook, userObjs, productObjs,
                 orderObjs, mockProducts, mockOrders, clock, budget>>

GetUsers(params, err) == GetUsersCall(params, err) /\ UNCHANGED paged

GetUserById(id, err) ==
  /\ ret' = IF err THEN Transient("getUserById", "user")
            ELSE IF Find(mockUsers, "user", id) = 0
            THEN NotFound("getUserById", "user", id, "user")
            ELSE [NoRet EXCEPT !.op = "getUserById", !.kind = "user", !.id = id,
                               !.ref = Find(mockUsers, "user", id)]
  /\ UNCHANGED <<engine, generation, checkout, hook, storeVars, clock, budget, paged>>

CreateUser(userData, id, err) ==
  /\ budget > 0
  /\ IF err
     THEN /\ ret' = Transient("createUser", "user")
          /\ UNCHANGED <<storeVars, clock, budget>>
     ELSE LET newUser == [id |-> id, name |-> userData.name, email |-> userData.email,
                          role |-> IF userData.role # "" THEN userData.role ELSE "user",
                          createdAt |-> clock, updatedAt |-> clock]
          IN /\ userObjs' = Append(userObjs, newUser)
             /\ mockUsers' = Append(mockUsers, Len(userObjs) + 1)
             /\ ret' = [NoRet EXCEPT !.op = "createUser", !.kind = "user", !.id = id,
                                     !.ref = Len(userObjs) + 1]
             /\ clock' = clock + 1
             /\ budget' = budget - 1
             /\ UNCHANGED <<productObjs, orderObjs, mockProducts, mockOrders>>
  /\ UNCHANGED <<engine, generation, checkout, hook, paged>>

UpdateUser(id, userData, err) ==
  /\ budget > 0
  /\ IF err
     THEN /\ ret' = Transient("updateUser", "user")
          /\ UNCHANGED <<storeVars, clock, budget>>
     ELSE LET userIndex == FindIndex(mockUsers, "user", id)
          IN IF userIndex = 0
             THEN /\ ret' = NotFound("updateUser", "user", id, "user")
                  /\ UNCHANGED <<storeVars, clock, budget>>
             ELSE LET updatedUser ==
                        [Merge(userObjs[mockUsers[userIndex]], userData)
                           EXCEPT !.updatedAt = clock]
                  IN /\ userObjs' = Append(userObjs, updatedUser)
                     /\ mockUsers' = [mockUsers EXCEPT ![userIndex] = Len(userObjs) + 1]
                     /\ ret' = [NoRet EXCEPT !.op = "updateUser", !.kind = "user",
                                             !.id = id, !.fields = userData.fields,
                                             !.ref = Len(userObjs) + 1]
                     /\ clock' = clock + 1
                     /\ budget' = budget - 1
                     /\ UNCHANGED <<productObjs, orderObjs, mockProducts, mockOrders>>
  /\ UNCHANGED <<engine, generation, checkout, hook, paged>>

DeleteUser(id, err) ==
  /\ budget > 0
  /\ IF err
     THEN /\ ret' = Transient("deleteUser", "user")
          /\ UNCHANGED <<storeVars, clock, budget>>
     ELSE LET userIndex == FindIndex(mockUsers, "user", id)
          IN IF userIndex = 0
             THEN /\ ret' = NotFound("deleteUser", "user", id, "user")
                  /\ UNCHANGED <<storeVars, clock, budget>>
             ELSE /\ mockUsers' = Splice(mockUsers, userIndex)
                  /\ ret' = [NoRet EXCEPT !.op = "deleteUser", !.kind = "user",
                                          !.id = id]
                  /\ budget' = budget - 1
                  /\ UNCHANGED <<userObjs, productObjs, orderObjs, mockProducts,
                                 mockOrders, clock>>
  /\ UNCHANGED <<engine, generation, checkout, hook, paged>>

----------------------------------------------------------------------------
(* Product operations. *)

\* getProducts applies the category filter before filterAndPaginate.
CategoryFiltered(params) ==
  IF params.category # <<>>
  THEN SelectSeq(mockProducts,
                 LAMBDA r : ToLowerCase(productObjs[r].category)
                              = ToLowerCase(params.category))
  ELSE mockProducts

GetProducts(params, err) ==
  /\ ret' = IF err THEN Transient("getProducts", "product")
            ELSE LET result == FilterAndPaginate(CategoryFiltered(params), params,
                                                 "product")
                 IN [NoRet EXCEPT !.op = "getProducts", !.kind = "product",
                                  !.list = result.data,
                                  !.pagination = result.pagination,
                                  !.params = params]
  /\ mockProducts' =
       IF err THEN mockProducts
       ELSE LET filteredProducts == Spread(Own(mockProducts))
            IN IF params.category = <<>> /\ filteredProducts.own
               THEN DataAfter(filteredProducts, params, "product")
               ELSE mockProducts
  /\ UNCHANGED <<engine, generation, checkout, hook, userObjs, productObjs,
                 orderObjs, mockUsers, mockOrders, clock, budget, paged>>

GetProductById(id, err) ==
  /\ ret' = IF err THEN Transient("getProductById", "product")
            ELSE IF Find(mockProducts, "product", id) = 0
            THEN NotFound("getProductById", "product", id, "product")
            ELSE [NoRet EXCEPT !.op = "getProductById", !.kind = "product",
                               !.id = id,
                               !.ref = Find(mockProducts, "product", id)]
  /\ UNCHANGED <<engine, generation, checkout, hook, storeVars, clock, budget, paged>>

CreateProduct(productData, id, err) ==
  /\ budget > 0
  /\ IF err
     THEN /\ ret' = Transient("createProduct", "product")
          /\ UNCHANGED <<storeVars, clock, budget>>
     ELSE LET newProduct == [id |-> id, name |-> productData.name,
                             description |-> productData.description,
                             price |-> productData.price,
                             category |-> productData.category,
                             stock |-> productData.stock,
                             createdAt |-> clock, updatedAt |-> clock]
          IN /\ productObjs' = Append(productObjs, newProduct)
             /\ mockProducts' = Append(mockProducts, Len(productObjs) + 1)
             /\ ret' = [NoRet EXCEPT !.op = "createProduct", !.kind = "product",
                                     !.id = id, !.ref = Len(productObjs) + 1]
             /\ clock' = clock + 1
             /\ budget' = budget - 1
             /\ UNCHANGED <<userObjs, orderObjs, mockUsers, mockOrders>>
  /\ UNCHANGED <<engine, generation, checkout, hook, paged>>

\* { ...mockProducts[productIndex], ...productData, updatedAt }
UpdatedProduct(product, productData, now) ==
  [Merge(product, productData) EXCEPT !.updatedAt = now]

UpdateProduct(id, productData, err) ==
  /\ budget > 0
  /\ IF err
     THEN /\ ret' = Transient("updateProduct", "product")
          /\ UNCHANGED <<storeVars, clock, budget>>
     ELSE LET productIndex == FindIndex(mockProducts, "product", id)
          IN IF productIndex = 0
             THEN /\ ret' = NotFound("updateProduct", "product", id, "product")
                  /\ UNCHANGED <<storeVars, clock, budget>>
             ELSE LET updatedProduct ==
                        UpdatedProduct(productObjs[mockProducts[productIndex]],
                                       productData, clock)
                  IN /\ productObjs' = Append(productObjs, updatedProduct)
                     /\ mockProducts' =
                          [mockProducts EXCEPT ![productIndex] = Len(productObjs) + 1]
                     /\ ret' = [NoRet EXCEPT !.op = "updateProduct",
                                             !.kind = "product", !.id = id,
                                             !.fields = productData.fields,
                                             !.ref = Len(productObjs) + 1]
                     /\ clock' = clock + 1
                     /\ budget' = budget - 1
                     /\ UNCHANGED <<userObjs, orderObjs, mockUsers, mockOrders>>
  /\ UNCHANGED <<engine, generation, checkout, hook, paged>>

DeleteProduct(id, err) ==
  /\ budget > 0
  /\ IF err
     THEN /\ ret' = Transient("deleteProduct", "product")
          /\ UNCHANGED <<storeVars, clock, budget>>
     ELSE LET productIndex == FindIndex(mockProducts, "product", id)
          IN IF productIndex = 0
             THEN /\ ret' = NotFound("deleteProduct", "product", id, "product")
                  /\ UNCHANGED <<storeVars, clock, budget>>
             ELSE /\ mockProducts' = Splice(mockProducts, productIndex)
                  /\ ret' = [NoRet EXCEPT !.op = "deleteProduct",
                                          !.kind = "product", !.id = id]
                  /\ budget' = budget - 1
                  /\ UNCHANGED <<userObjs, productObjs, orderObjs, mockUsers,
                                 mockOrders, clock>>
  /\ UNCHANGED <<engine, generation, checkout, hook, paged>>

----------------------------------------------------------------------------
(* Order operations. *)

\* getOrders applies the status filter before filterAndPaginate.
StatusFiltered(params) ==
  IF params.status # ""
  THEN SelectSeq(mockOrders, LAMBDA r : orderObjs[r].status = params.status)
  ELSE mockOrders

GetOrders(params, err) ==
  /\ ret' = IF err THEN Transient("getOrders", "order")
            ELSE LET result == FilterAndPaginate(StatusFiltered(params), params,
                                                 "order")
                 IN [NoRet EXCEPT !.op = "getOrders", !.kind = "order",
                                  !.list = result.data,
                                  !.pagination = result.pagination,
                                  !.params = params]
  /\ mockOrders' =
       IF err THEN mockOrders
       ELSE LET filteredOrders == Spread(Own(mockOrders))
            IN IF params.status = "" /\ filteredOrders.own
               THEN DataAfter(filteredOrders, params, "order")
               ELSE mockOrders
  /\ UNCHANGED <<engine, generation, checkout, hook, userObjs, productObjs,
                 orderObjs, mockUsers, mockProducts, clock, budget, paged>>

GetOrderById(id, err) ==
  /\ ret' = IF err THEN Transient("getOrderById", "order")
            ELSE IF Find(mockOrders, "order", id) = 0
            THEN NotFound("getOrderById", "order", id, "order")
            ELSE [NoRet EXCEPT !.op = "getOrderById", !.kind = "order", !.id = id,
                               !.ref = Find(mockOrders, "order", id)]
  /\ UNCHANGED <<engine, generation, checkout, hook, storeVars, clock, budget, paged>>

\* The price createOrder reads for an item: product!.price of the product
\* found in mockProducts.
ItemPrice(product) == productObjs[product].price

\* The items createOrder builds: orderData.items.map(...); itemIds are the
\* results of generateId, one per item.
OrderItems(requested, itemIds) ==
  [i \in 1..Len(requested) |->
     LET product == Find(mockProducts, "product", requested[i].productId)
     IN [id |-> itemIds[i], productId |-> requested[i].productId,
         product |-> product, quantity |-> requested[i].quantity,
         price |-> ItemPrice(product)]]

RECURSIVE OrderTotal(_), OrderTotalOfUnits(_)

\* a total that adds each product's price once, whatever the quantity
OrderTotalOfUnits(requested) ==
  IF requested = <<>> THEN 0
  ELSE productObjs[Find(mockProducts, "product", Head(requested).productId)].price
         + OrderTotalOfUnits(Tail(requested))

\* total += itemTotal, item by item
OrderTotal(requested) ==
  IF requested = <<>> THEN 0
  ELSE LET product == Find(mockProducts, "product", Head(requested).productId)
       IN productObjs[product].price * Head(requested).quantity
            + OrderTotal(Tail(requested))

\* The first requested item whose product is missing; 0 when there is none.
FirstMissing(requested) ==
  IF \E i \in 1..Len(requested) :
       Find(mockProducts, "product", requested[i].productId) = 0
  THEN CHOOSE i \in 1..Len(requested) :
         /\ Find(mockProducts, "product", requested[i].productId) = 0
         /\ \A j \in 1..(i - 1) :
              Find(mockProducts, "product", requested[j].productId) # 0
  ELSE 0

\* a user check that lets every user id pass
UserNeverMissing(orderData) == FALSE

\* !user for mockUsers.find(u => u.id === orderData.userId)
UserMissing(orderData) == Find(mockUsers, "user", orderData.userId) = 0

\* a createOrder that pushes the order before it looks the user up
CreateOrderPushFirst(orderData, itemIds, id, err) ==
  /\ budget > 0
  /\ IF err
     THEN /\ ret' = Transient("createOrder", "order")
          /\ UNCHANGED <<storeVars, clock, budget>>
     ELSE IF FirstMissing(orderData.items) # 0
     THEN /\ ret' = NotFound("createOrder", "order",
                             orderData.items[FirstMissing(orderData.items)].productId,
                             "product")
          /\ UNCHANGED <<storeVars, clock, budget>>
     ELSE LET newOrder == [id |-> id, userId |-> orderData.userId,
                           user |-> Find(mockUsers, "user", orderData.userId),
                           items |-> OrderItems(orderData.items, itemIds),
                           total |-> OrderTotal(orderData.items),
                           status |-> "pending",
                           shippingAddress |-> orderData.shippingAddress,
                           createdAt |-> clock, updatedAt |-> clock]
          IN /\ orderObjs' = Append(orderObjs, newOrder)
             /\ mockOrders' = Append(mockOrders, Len(orderObjs) + 1)
             /\ ret' = IF UserMissing(orderData)
                       THEN NotFound("createOrder", "order", orderData.userId, "user")
                       ELSE [NoRet EXCEPT !.op = "createOrder", !.kind = "order",
                                          !.id = id, !.ref = Len(orderObjs) + 1]
             /\ clock' = clock + 1
             /\ budget' = budget - 1
             /\ UNCHANGED <<userObjs, productObjs, mockUsers, mockProducts>>
  /\ UNCHANGED <<engine, generation, checkout, hook, paged>>

CreateOrder(orderData, itemIds, id, err) ==
  /\ budget > 0
  /\ IF err
     THEN /\ ret' = Transient("createOrder", "order")
          /\ UNCHANGED <<storeVars, clock, budget>>
     ELSE IF FirstMissing(orderData.items) # 0
     THEN /\ ret' = NotFound("createOrder", "order",
                             orderData.items[FirstMissing(orderData.items)].productId,
                             "product")
          /\ UNCHANGED <<storeVars, clock, budget>>
     ELSE IF UserMissing(orderData)
     THEN /\ ret' = NotFound("createOrder", "order", orderData.userId, "user")
          /\ UNCHANGED <<storeVars, clock, budget>>
     ELSE LET newOrder == [id |-> id, userId |-> orderData.userId,
                           user |-> Find(mockUsers, "user", orderData.userId),
                           items |-> OrderItems(orderData.items, itemIds),
                           total |-> OrderTotal(orderData.items),
                           status |-> "pending",
                           shippingAddress |-> orderData.shippingAddress,
                           createdAt |-> clock, updatedAt |-> clock]
          IN /\ orderObjs' = Append(orderObjs, newOrder)
             /\ mockOrders' = Append(mockOrders, Len(orderObjs) + 1)
             /\ ret' = [NoRet EXCEPT !.op = "createOrder", !.kind = "order",
                                     !.id = id, !.ref = Len(orderObjs) + 1]
             /\ clock' = clock + 1
             /\ budget' = budget - 1
             /\ UNCHANGED <<userObjs, productObjs, mockUsers, mockProducts>>
  /\ UNCHANGED <<engine, generation, checkout, hook, paged>>

UpdateOrder(id, orderData, err) ==
  /\ budget > 0
  /\ IF err
     THEN /\ ret' = Transient("updateOrder", "order")
          /\ UNCHANGED <<storeVars, clock, budget>>
     ELSE LET orderIndex == FindIndex(mockOrders, "order", id)
          IN IF orderIndex = 0
             THEN /\ ret' = NotFound("updateOrder", "order", id, "order")
                  /\ UNCHANGED <<storeVars, clock, budget>>
             ELSE LET updatedOrder ==
                        [Merge(orderObjs[mockOrders[orderIndex]], orderData)
                           EXCEPT !.updatedAt = clock]
                  IN /\ orderObjs' = Append(orderObjs, updatedOrder)
                     /\ mockOrders' =
                          [mockOrders EXCEPT ![orderIndex] = Len(orderObjs) + 1]
                     /\ ret' = [NoRet EXCEPT !.op = "updateOrder", !.kind = "order",
                                             !.id = id, !.fields = orderData.fields,
                                             !.ref = Len(orderObjs) + 1]
                     /\ clock' = clock + 1
                     /\ budget' = budget - 1
                     /\ UNCHANGED <<userObjs, productObjs, mockUsers, mockProducts>>
  /\ UNCHANGED <<engine, generation, checkout, hook, paged>>

DeleteOrder(id, err) ==
  /\ budget > 0
  /\ IF err
     THEN /\ ret' = Transient("deleteOrder", "order")
          /\ UNCHANGED <<storeVars, clock, budget>>
     ELSE LET orderIndex == FindIndex(mockOrders, "order", id)
          IN IF orderIndex = 0
             THEN /\ ret' = NotFound("deleteOrder", "order", id, "order")
                  /\ UNCHANGED <<storeVars, clock, budget>>
             ELSE /\ mockOrders' = Splice(mockOrders, orderIndex)
                  /\ ret' = [NoRet EXCEPT !.op = "deleteOrder", !.kind = "order",
                                          !.id = id]
                  /\ budget' = budget - 1
                  /\ UNCHANGED <<userObjs, productObjs, orderObjs, mockUsers,
                                 mockProducts, clock>>
  /\ UNCHANGED <<engine, generation, checkout, hook, paged>>

----------------------------------------------------------------------------
(* Dashboard statistics. *)

\* mockOrders.sort((a, b) => new Date(b.createdAt) - new Date(a.createdAt)):
\* Array.prototype.sort sorts the array it is called on, in place.
RecentFirst(orders) ==
  LET keyed == [i \in 1..Len(orders) |->
                  [key |-> NumKey(orderObjs[orders[i]].createdAt), val |-> orders[i]]]
      sorted == ArraySort(keyed, "recent")
  IN [i \in 1..Len(orders) |-> sorted[i].val]

GetStats(err) ==
  /\ IF err
     THEN /\ ret' = Transient("getStats", "order")
          /\ UNCHANGED mockOrders
     ELSE /\ mockOrders' = RecentFirst(mockOrders)
          /\ ret' = [NoRet EXCEPT !.op = "getStats", !.kind = "order",
                                  !.list = Slice(RecentFirst(mockOrders), 0, 5)]
  /\ UNCHANGED <<engine, generation, checkout, hook, userObjs, productObjs, orderObjs,
                 mockUsers, mockProducts,
                 clock, budget, paged>>

----------------------------------------------------------------------------
(* The caller. *)

\* The value a caller writes into a record it was handed.
Scribble == <<"X">>

\* The references a response's data holds.
Handed(r) == (IF r.ref # 0 THEN {r.ref} ELSE {}) \cup {r.list[i] : i \in 1..Len(r.list)}

\* The caller assigns to a property of a record of the last response, as in
\* response.data.name = ...: the name of a user or a product, the status of an
\* order.
CallerWrites(ref) ==
  /\ budget > 0
  /\ ref \in Handed(ret)
  /\ CASE ret.kind = "user" ->
            /\ userObjs' = [userObjs EXCEPT ![ref].name = Scribble]
            /\ UNCHANGED <<productObjs, orderObjs>>
       [] ret.kind = "product" ->
            /\ productObjs' = [productObjs EXCEPT ![ref].name = Scribble]
            /\ UNCHANGED <<userObjs, orderObjs>>
       [] ret.kind = "order" ->
            /\ orderObjs' = [orderObjs EXCEPT ![ref].status = "cancelled"]
            /\ UNCHANGED <<userObjs, productObjs>>
  /\ budget' = budget - 1
  /\ UNCHANGED <<engine, generation, checkout, hook, mockUsers, mockProducts, mockOrders, clock,
                 ret, paged>>

----------------------------------------------------------------------------
(* The landing page generation pipeline: one run of                        *)
(* LandingPageGenerator.generateLandingPage.  An action is the code that   *)
(* runs between two awaits; what a remote service answers is its input.    *)

\* the product images a scraped page may list
MaxImages == 2

\* pollTaskCompletion's maxAttempts
maxAttempts == 30

\* The messages of the errors the adapters throw.
BrowseAiError == "Browse AI error"
BrowseAiTaskFailed == "Browse AI task failed"
BrowseAiTaskTimeout == "Browse AI task timeout"
SerpApiError == "SerpAPI error"
GroqApiError == "Groq API error"
TypeError == "Cannot read properties of null"

\* no error: the error field left undefined
NoError == ""

\* An entry of the trace: a progress callback delivered, an adapter invoked or
\* finished, the run returned or thrown.
Event(kind, name, progress, error) ==
  [kind |-> kind, name |-> name, progress |-> progress,
   completed |-> progress = 100, error |-> error]
Invoked(adapter) == Event("invoked", adapter, 0, NoError)
Finished(adapter) == Event("finished", adapter, 0, NoError)
Returned == Event("returned", "generateLandingPage", 0, NoError)
Thrown(error) == Event("thrown", "generateLandingPage", 0, error)

\* an updateProgress that leaves the form step out
UpdateProgressButForm(log, step, progress, error) ==
  IF progressCallback /\ step # "form"
  THEN Append(log, Event("progress", step, progress, error))
  ELSE log

\* updateProgress: the callback, when there is one, gets step, progress,
\* completed = (progress === 100) and error.
UpdateProgress(log, step, progress, error) ==
  IF progressCallback
  THEN Append(log, Event("progress", step, progress, error))
  ELSE log

\* caught: the errors the catch blocks of the extraction stage have logged
NoLocals ==
  [productInfo |-> [source |-> "none", images |-> 0],
   classification |-> "none", theme |-> "none", content |-> "none",
   caught |-> <<>>]
NoData ==
  [productInfo |-> [source |-> "none", images |-> 0],
   classification |-> "none", theme |-> "none", content |-> "none",
   images |-> <<>>,
   countdown |-> [hours |-> 0, urgencyLevel |-> "none"],
   codForm |-> FALSE]

\* No run is under way: the state of the generator before it is constructed.
NoRun ==
  /\ progressCallback = FALSE
  /\ request = [countdownHours |-> 0, urgencyLevel |-> ""]
  /\ pc = "idle"
  /\ attempts = 0
  /\ locals = NoLocals
  /\ processedImages = <<>>
  /\ trace = <<>>
  /\ landingPage = NoData

notRunning == <<engine, storeVars, clock, budget, ret, paged, checkout, hook>>

\* generateLandingPage up to its first await: the first two progress steps,
\* then extractProductInfo calls browseAiService.scrapeProductPage, which
\* posts the task.
GenerateLandingPage ==
  /\ pc = "idle"
  /\ trace' = Append(UpdateProgress(UpdateProgress(trace, "starting", 0, NoError),
                                    "extracting", 10, NoError),
                     Invoked("extractProductInfo"))
  /\ pc' = "scrapeProductPage"
  /\ UNCHANGED <<notRunning, progressCallback, request, attempts, locals,
                 processedImages, landingPage>>

\* a catch that reports the error of no message
CaughtUnknown(error) ==
  /\ trace' = Append(UpdateProgress(trace, "error", 0, "Unknown error occurred"),
                     Thrown(error))
  /\ pc' = "failed"
  /\ UNCHANGED <<locals, processedImages, landingPage>>

\* The catch of generateLandingPage: error(0) with the error's message to
\* the callback, then the error is thrown on.
Caught(error) ==
  /\ trace' = Append(UpdateProgress(trace, "error", 0, error), Thrown(error))
  /\ pc' = "failed"
  /\ UNCHANGED <<locals, processedImages, landingPage>>

\* a catch that throws on what it caught
SerpApiRethrown(error) == error

\* serpApiService.extractProductInfo's catch: whatever went wrong, it throws
\* a new Error of one fixed message.
SerpApiFailure(error) == "Failed to extract product information"

\* extractProductInfo has resolved with productInfo: the classifying step
\* and the call of groqService.classifyProduct.
Extracted(productInfo) ==
  /\ locals' = [locals EXCEPT !.productInfo = productInfo]
  /\ trace' = Append(UpdateProgress(Append(trace, Finished("extractProductInfo")),
                                    "classifying", 25, NoError),
                     Invoked("classifyProduct"))
  /\ pc' = "classifyProduct"
  /\ UNCHANGED <<processedImages, landingPage>>

\* scrapeProductPage's catch logs the error and calls serpApiService.
ScrapeCaught(error) ==
  /\ locals' = [locals EXCEPT !.caught = Append(@, error)]
  /\ pc' = "scrapeFallback"
  /\ UNCHANGED <<processedImages, trace, landingPage>>

\* scrapeProductPage: the answer to the task POST.  Anything but an ok
\* response throws into its catch.
ScrapeProductPage(ok) ==
  /\ pc = "scrapeProductPage"
  /\ IF ok
     THEN /\ pc' = "pollTaskCompletion"
          /\ attempts' = 0
          /\ UNCHANGED <<locals, processedImages, trace, landingPage>>
     ELSE /\ ScrapeCaught(BrowseAiError)
          /\ UNCHANGED attempts
  /\ UNCHANGED <<notRunning, progressCallback, request>>

\* a pollTaskCompletion whose loop has no limit of attempts
PollWithoutLimit(status, images) ==
  /\ pc = "pollTaskCompletion"
  /\ CASE status = "successful" ->
            /\ Extracted([source |-> "browseAi", images |-> images])
            /\ UNCHANGED attempts
       [] status = "failed" ->
            /\ ScrapeCaught(BrowseAiTaskFailed)
            /\ UNCHANGED attempts
       [] OTHER ->
            /\ attempts' = attempts + 1
            /\ UNCHANGED <<pc, locals, processedImages, trace, landingPage>>
  /\ UNCHANGED <<notRunning, progressCallback, request>>

\* pollTaskCompletion: the answer to one status fetch.
PollTaskCompletion(status, images) ==
  /\ pc = "pollTaskCompletion"
  /\ attempts < maxAttempts
  /\ CASE status = "successful" ->
            /\ Extracted([source |-> "browseAi", images |-> images])
            /\ UNCHANGED attempts
       [] status = "failed" ->
            /\ ScrapeCaught(BrowseAiTaskFailed)
            /\ UNCHANGED attempts
       [] OTHER ->
            /\ attempts' = attempts + 1
            /\ IF attempts + 1 < maxAttempts
               THEN UNCHANGED <<pc, locals, processedImages, trace, landingPage>>
               ELSE ScrapeCaught(BrowseAiTaskTimeout)
  /\ UNCHANGED <<notRunning, progressCallback, request>>

\* serpApiService.extractProductInfo called from scrapeProductPage's catch;
\* when it throws, extractProductInfo's own catch logs that and calls it
\* again.
ScrapeFallback(ok) ==
  /\ pc = "scrapeFallback"
  /\ IF ok
     THEN Extracted([source |-> "serpApi", images |-> 0])
     ELSE /\ locals' = [locals EXCEPT
                          !.caught = Append(@, SerpApiFailure(SerpApiError))]
          /\ pc' = "extractFallback"
          /\ UNCHANGED <<processedImages, trace, landingPage>>
  /\ UNCHANGED <<notRunning, progressCallback, request, attempts>>

\* an extractProductInfo whose catch throws on what the scraper threw
ExtractRethrows(ok) ==
  /\ pc = "extractFallback"
  /\ Caught(locals.caught[Len(locals.caught)])
  /\ UNCHANGED <<notRunning, progressCallback, request, attempts>>

\* serpApiService.extractProductInfo called from extractProductInfo's catch
ExtractFallback(ok) ==
  /\ pc = "extractFallback"
  /\ IF ok THEN Extracted([source |-> "serpApi", images |-> 0])
     ELSE Caught(SerpApiFailure(SerpApiError))
  /\ UNCHANGED <<notRunning, progressCallback, request, attempts>>

\* What a groq call returns for the reply chatCompletion resolved with:
\* JSON.parse(response) when it parses, be it an object of the shape asked
\* for ("json"), null or a number; the fallback value when it throws, as on
\* prose or on the empty reply.
Parsed(answer) ==
  CASE answer = "json" -> "parsed"
    [] answer = "null" -> "null"
    [] answer = "number" -> "number"
    [] OTHER -> "fallback"

\* The prompt of generateDesignTheme and generateContent reads properties
\* of classification before anything is awaited: that throws on null.
PromptThrows == locals.classification = "null"

\* groqService.classifyProduct has answered, then the designing step.
ClassifyProduct(answer) ==
  /\ pc = "classifyProduct"
  /\ IF answer = "error" THEN Caught(GroqApiError)
     ELSE /\ locals' = [locals EXCEPT !.classification = Parsed(answer)]
          /\ trace' = Append(UpdateProgress(Append(trace, Finished("classifyProduct")),
                                            "designing", 40, NoError),
                             Invoked("generateDesignTheme"))
          /\ pc' = "generateDesignTheme"
          /\ UNCHANGED <<processedImages, landingPage>>
  /\ UNCHANGED <<notRunning, progressCallback, request, attempts>>

\* groqService.generateDesignTheme has answered, then the content step.
GenerateDesignTheme(answer) ==
  /\ pc = "generateDesignTheme"
  /\ IF PromptThrows THEN Caught(TypeError)
     ELSE IF answer = "error" THEN Caught(GroqApiError)
     ELSE /\ locals' = [locals EXCEPT !.theme = Parsed(answer)]
          /\ trace' = Append(UpdateProgress(Append(trace,
                                                   Finished("generateDesignTheme")),
                                            "content", 55, NoError),
                             Invoked("generateContent"))
          /\ pc' = "generateContent"
          /\ UNCHANGED <<processedImages, landingPage>>
  /\ UNCHANGED <<notRunning, progressCallback, request, attempts>>

\* groqService.generateContent has answered, then the images step.
GenerateContent(answer) ==
  /\ pc = "generateContent"
  /\ IF PromptThrows THEN Caught(TypeError)
     ELSE IF answer = "error" THEN Caught(GroqApiError)
     ELSE /\ locals' = [locals EXCEPT !.content = Parsed(answer)]
          /\ trace' = Append(UpdateProgress(Append(trace, Finished("generateContent")),
                                            "images", 70, NoError),
                             Invoked("processProductImages"))
          /\ pc' = "processProductImages"
          /\ UNCHANGED <<processedImages, landingPage>>
  /\ UNCHANGED <<notRunning, progressCallback, request, attempts>>

\* A URL: of which kind, and for which of the product's images.
Url(kind, image) == [kind |-> kind, image |-> image]

\* removeBgService.removeBackground: the object URL of the cut-out image, or
\* the image URL it was given when anything in it throws.
RemoveBackground(imageUrl, removed) ==
  IF removed THEN Url("objectUrl", imageUrl.image) ELSE imageUrl

\* The entry processProductImages pushes for an image: the derived URLs when
\* the fetch of backgroundRemovedUrl and the upload succeed, the original
\* URL in every field when one of them throws.
ProcessedImage(imageUrl, removed, uploaded) ==
  IF uploaded
  THEN [original |-> imageUrl,
        backgroundRemoved |-> RemoveBackground(imageUrl, removed),
        cloudinaryUrl |-> Url("secure_url", imageUrl.image),
        optimizedUrl |-> Url("optimized", imageUrl.image),
        thumbnailUrl |-> Url("thumbnail", imageUrl.image)]
  ELSE [original |-> imageUrl, backgroundRemoved |-> imageUrl,
        cloudinaryUrl |-> imageUrl, optimizedUrl |-> imageUrl,
        thumbnailUrl |-> imageUrl]

\* One turn of processProductImages' loop, for the next image of
\* productInfo.images.
ProcessProductImage(removed, uploaded) ==
  /\ pc = "processProductImages"
  /\ Len(processedImages) < locals.productInfo.images
  /\ processedImages' =
       Append(processedImages,
              ProcessedImage(Url("original", Len(processedImages) + 1),
                             removed, uploaded))
  /\ UNCHANGED <<notRunning, progressCallback, request, pc, attempts, locals,
                 trace, landingPage>>

\* customizations?.countdownHours || 24 and customizations?.urgencyLevel || 'medium'
CreateCountdownTimer(customizations) ==
  [hours |-> IF customizations.countdownHours # 0
             THEN customizations.countdownHours ELSE 24,
   urgencyLevel |-> IF customizations.urgencyLevel # ""
                    THEN customizations.urgencyLevel ELSE "medium"]

\* processProductImages has resolved: the countdown, form and completed
\* steps follow with no await between them, then the return.
Complete ==
  /\ pc = "processProductImages"
  /\ Len(processedImages) = locals.productInfo.images
  /\ trace' =
       LET images == Append(trace, Finished("processProductImages"))
           countdown ==
             Append(Append(UpdateProgress(images, "countdown", 85, NoError),
                           Invoked("createCountdownTimer")),
                    Finished("createCountdownTimer"))
           form ==
             Append(Append(UpdateProgress(countdown, "form", 95, NoError),
                           Invoked("createCODForm")),
                    Finished("createCODForm"))
       IN Append(UpdateProgress(form, "completed", 100, NoError), Returned)
  /\ landingPage' = [productInfo |-> locals.productInfo,
                     classification |-> locals.classification,
                     theme |-> locals.theme,
                     content |-> locals.content,
                     images |-> processedImages,
                     countdown |-> CreateCountdownTimer(request),
                     codForm |-> TRUE]
  /\ pc' = "done"
  /\ UNCHANGED <<notRunning, progressCallback, request, attempts, locals,
                 processedImages>>

----------------------------------------------------------------------------
(* useGenerateLandingPage and landingPageUtils.validateProductUrl.         *)

SupportedDomains ==
  <<<<"a", "m", "a", "z", "o", "n", ".", "c", "o", "m">>,
    <<"a", "m", "a", "z", "o", "n", ".", "i", "n">>,
    <<"f", "l", "i", "p", "k", "a", "r", "t", ".", "c", "o", "m">>,
    <<"m", "y", "n", "t", "r", "a", ".", "c", "o", "m">>,
    <<"a", "j", "i", "o", ".", "c", "o", "m">>,
    <<"n", "y", "k", "a", "a", ".", "c", "o", "m">>,
    <<"s", "h", "o", "p", "i", "f", "y", ".", "c", "o", "m">>,
    <<"w", "o", "o", "c", "o", "m", "m", "e", "r", "c", "e", ".", "c", "o", "m">>>>

\* the index of the first character of s from position from on that is one
\* of chars; Len(s) + 1 when there is none
IndexOfAny(s, chars, from) ==
  IF \E i \in from..Len(s) : s[i] \in chars
    THEN CHOOSE i \in from..Len(s) :
           /\ s[i] \in chars
           /\ \A j \in from..(i - 1) : s[j] \notin chars
    ELSE Len(s) + 1

Scheme == <<"h", "t", "t", "p", "s", ":", "/", "/">>

\* new URL(url).hostname for an https URL: what stands between the scheme
\* and the path, query or fragment, less the user information and the port,
\* in lower case; << >> when new URL throws
Hostname(url) ==
  IF Len(url) <= Len(Scheme) \/ SubSeq(url, 1, Len(Scheme)) # Scheme THEN <<>>
  ELSE LET authority ==
             SubSeq(url, Len(Scheme) + 1,
                    IndexOfAny(url, {"/", "?", "#"}, Len(Scheme) + 1) - 1)
           host ==
             IF \E i \in 1..Len(authority) : authority[i] = "@"
               THEN SubSeq(authority,
                           1 + CHOOSE i \in 1..Len(authority) :
                                 /\ authority[i] = "@"
                                 /\ \A j \in (i + 1)..Len(authority) :
                                      authority[j] # "@",
                           Len(authority))
               ELSE authority
       IN ToLowerCase(SubSeq(host, 1, IndexOfAny(host, {":"}, 1) - 1))

\* landingPageUtils.validateProductUrl
ValidateProductUrl(url) ==
  /\ Hostname(url) # <<>>
  /\ \E k \in 1..Len(SupportedDomains) :
       Includes(Hostname(url), SupportedDomains[k])

UnsupportedUrl ==
  "Unsupported product URL. Please use URLs from Amazon, Flipkart, Myntra, or other supported platforms."

\* updateProgress as generateLandingPage calls it, in order
ProgressUpdates ==
  <<[step |-> "starting", progress |-> 0],
    [step |-> "extracting", progress |-> 10],
    [step |-> "classifying", progress |-> 25],
    [step |-> "designing", progress |-> 40],
    [step |-> "content", progress |-> 55],
    [step |-> "images", progress |-> 70],
    [step |-> "countdown", progress |-> 85],
    [step |-> "form", progress |-> 95],
    [step |-> "completed", progress |-> 100]>>

\* the progress state null
NoProgress == [run |-> 0, step |-> "", progress |-> 0, completed |-> FALSE]

\* the GenerationProgress the callback of run hands to setProgress at its
\* at-th updateProgress; run is kept to tell whose callback it was
Progress(run, at) ==
  [run |-> run, step |-> ProgressUpdates[at].step,
   progress |-> ProgressUpdates[at].progress,
   completed |-> ProgressUpdates[at].progress = 100]

\* the progress the catch of generateLandingPage and onError set
ErrorProgress(run) ==
  [run |-> run, step |-> "error", progress |-> 0, completed |-> FALSE]

\* The page and its hooks before anything was asked.
NoRuns ==
  /\ runs = <<>>
  /\ progressState = NoProgress
  /\ landingPageData = 0
  /\ mutationError = FALSE
  /\ currentStep = "url-input"
  /\ publishedUrl = FALSE

\* the hook is at rest
NoMutation ==
  /\ productUrl = <<>>
  /\ mutation = [status |-> "idle", error |-> NoError]
  /\ NoRuns

\* mutationFn up to its first await: the URL is validated, then the
\* generator is constructed and generateLandingPage called
MutationFn ==
  /\ mutation.status = "idle"
  /\ IF ValidateProductUrl(productUrl)
       THEN GenerateLandingPage
       ELSE /\ mutation' = [status |-> "error", error |-> UnsupportedUrl]
            /\ UNCHANGED <<engine, storeVars, clock, budget, ret, paged,
                           generation, checkout, productUrl, pageVars, inFlight>>

\* mutationFn after generateLandingPage has settled: onSuccess or onError
Settled ==
  /\ mutation.status = "idle"
  /\ pc \in {"done", "failed"}
  /\ mutation' = IF pc = "done" THEN [status |-> "success", error |-> NoError]
                 ELSE [status |-> "error", error |-> trace[Len(trace)].error]
  /\ UNCHANGED <<engine, storeVars, clock, budget, ret, paged, generation,
                 checkout, productUrl, pageVars, inFlight>>

beyondThePage == <<engine, storeVars, clock, budget, ret, paged, generation,
                   checkout, productUrl, mutation, inFlight>>

\* generate(request): mutationFn validates the URL and throws, or constructs
\* a generator with the callback setProgress and calls generateLandingPage,
\* which runs up to its first await
Mutate(url) ==
  /\ IF ValidateProductUrl(url)
     THEN /\ runs' = Append(runs, [at |-> 2, status |-> "running"])
          /\ progressState' = Progress(Len(runs) + 1, 2)
          /\ mutationError' = FALSE
     ELSE /\ runs' = Append(runs, [at |-> 0, status |-> "error"])
          /\ progressState' = ErrorProgress(Len(runs) + 1)
          /\ mutationError' = TRUE
  /\ UNCHANGED landingPageData

\* an awaited stage of run has resolved: the next updateProgress
Progressed(run) ==
  /\ runs[run].status = "running"
  /\ runs[run].at < 6
  /\ runs' = [runs EXCEPT ![run].at = @ + 1]
  /\ progressState' = Progress(run, runs[run].at + 1)
  /\ UNCHANGED <<beyondThePage, landingPageData, mutationError, currentStep,
                 publishedUrl>>

\* processProductImages has resolved: countdown, form and completed are
\* reported, generateLandingPage returns and mutationFn sets landingPageData
Completed(run) ==
  /\ runs[run].status = "running"
  /\ runs[run].at = 6
  /\ runs' = [runs EXCEPT ![run] = [at |-> 9, status |-> "returned"]]
  /\ progressState' = Progress(run, 9)
  /\ landingPageData' = run
  /\ UNCHANGED <<beyondThePage, mutationError, currentStep, publishedUrl>>

\* onSuccess of the mutation of run
OnSuccess(run) ==
  /\ runs[run].status = "returned"
  /\ runs' = [runs EXCEPT ![run].status = "success"]
  /\ progressState' = NoProgress
  /\ UNCHANGED <<beyondThePage, landingPageData, mutationError, currentStep,
                 publishedUrl>>

\* an awaited stage of run has thrown: the catch reports error(0), then
\* onError sets the error progress; error is that of the last mutation
OnError(run) ==
  /\ runs[run].status = "running"
  /\ runs' = [runs EXCEPT ![run].status = "error"]
  /\ progressState' = ErrorProgress(run)
  /\ mutationError' = (run = Len(runs) \/ mutationError)
  /\ UNCHANGED <<beyondThePage, landingPageData, currentStep, publishedUrl>>

\* reset of useGenerateLandingPage; no run is cancelled
ResetGeneration ==
  /\ progressState' = NoProgress
  /\ landingPageData' = 0
  /\ mutationError' = FALSE
  /\ UNCHANGED runs

\* generate of useGenerateLandingPage, whoever calls it
Generate(url) ==
  /\ Len(runs) < MaxRuns
  /\ Mutate(url)
  /\ UNCHANGED <<beyondThePage, currentStep, publishedUrl>>

\* reset of useGenerateLandingPage, whoever calls it
Reset ==
  /\ ResetGeneration
  /\ UNCHANGED <<beyondThePage, currentStep, publishedUrl>>

\* handleGenerate: the button of the URL step, shown in step 'url-input'
HandleGenerate(url) ==
  /\ currentStep = "url-input"
  /\ url # <<>>
  /\ Len(runs) < MaxRuns
  /\ currentStep' = "generating"
  /\ Mutate(url)
  /\ UNCHANGED <<beyondThePage, publishedUrl>>

\* handleReset: 'Try Again' of the generating step, shown when error is set,
\* and the reset buttons of the preview and the published steps
HandleReset ==
  /\ \/ currentStep = "generating" /\ mutationError
     \/ currentStep = "preview" /\ landingPageData # 0
     \/ currentStep = "published" /\ publishedUrl
  /\ currentStep' = "url-input"
  /\ publishedUrl' = FALSE
  /\ ResetGeneration
  /\ UNCHANGED beyondThePage

\* the condition under which the page renders 'Preview Landing Page'
PreviewShown ==
  landingPageData # 0 /\ progressState.completed /\ currentStep = "generating"

\* 'Preview Landing Page': goToStep('preview')
GoToPreview ==
  /\ PreviewShown
  /\ currentStep' = "preview"
  /\ UNCHANGED <<beyondThePage, runs, progressState, landingPageData,
                 mutationError, publishedUrl>>

\* handlePublish: the button of the preview step
HandlePublish ==
  /\ currentStep = "preview"
  /\ landingPageData # 0
  /\ publishedUrl' = TRUE
  /\ currentStep' = "published"
  /\ UNCHANGED <<beyondThePage, runs, progressState, landingPageData,
                 mutationError>>

----------------------------------------------------------------------------
(* Cash-on-delivery order submission: codOrderService.                     *)
(* A field of the form is a sequence of characters, << >> when it is empty *)
(* or absent; quantity is a number, 0 when absent.  A message is a string. *)

\* the rule table createCODForm publishes; a pattern is /^[0-9]{count}$/ or
\* the one of an email address
ValidationRules ==
  [name     |-> [required |-> TRUE, minLength |-> 2],
   phone    |-> [required |-> TRUE, pattern |-> [kind |-> "digits", count |-> 10]],
   email    |-> [required |-> FALSE, pattern |-> [kind |-> "email"]],
   address  |-> [required |-> TRUE, minLength |-> 10],
   city     |-> [required |-> TRUE, minLength |-> 2],
   state    |-> [required |-> TRUE, minLength |-> 2],
   pincode  |-> [required |-> TRUE, pattern |-> [kind |-> "digits", count |-> 6]],
   quantity |-> [required |-> TRUE, min |-> 1, max |-> 10]]

Fields ==
  <<"name", "phone", "email", "address", "city", "state", "pincode", "quantity">>

DecimalDigits == {"0", "1", "2", "3", "4", "5", "6", "7", "8", "9"}

\* /^[0-9]{count}$/.test(s)
DigitsTest(s, count) ==
  /\ Len(s) = count
  /\ \A i \in 1..Len(s) : s[i] \in DecimalDigits

\* the class \s, as far as the characters drawn go
WhiteSpace == {" ", "\t", "\n"}

\* /^[^\s@]+@[^\s@]+\.[^\s@]+$/.test(s): some '@' and some later '.' split s
\* into three non-empty runs free of white space and of '@'
EmailTest(s) ==
  \E at \in 1..Len(s), dot \in 1..Len(s) :
    /\ 1 < at /\ at + 1 < dot /\ dot < Len(s)
    /\ s[at] = "@" /\ s[dot] = "."
    /\ \A i \in 1..Len(s) \ {at} : s[i] \notin WhiteSpace \cup {"@"}

NameInvalid(name) == name = <<>> \/ Len(name) < 2
PhoneInvalid(phone) == phone = <<>> \/ ~DigitsTest(phone, 10)
EmailInvalid(email) == email # <<>> /\ ~EmailTest(email)
AddressInvalid(address) == address = <<>> \/ Len(address) < 10
CityInvalid(city) == city = <<>> \/ Len(city) < 2
StateInvalid(state) == state = <<>> \/ Len(state) < 2
PincodeInvalid(pincode) == pincode = <<>> \/ ~DigitsTest(pincode, 6)
QuantityUnbounded(quantity) == quantity = 0 \/ quantity < 1
QuantityInvalid(quantity) == quantity = 0 \/ quantity < 1 \/ quantity > 10

\* errors.join(', ')
RECURSIVE Join(_)
Join(errors) ==
  IF errors = <<>> THEN ""
  ELSE IF Len(errors) = 1 THEN errors[1]
  ELSE errors[1] \o ", " \o Join(Tail(errors))

Push(errors, invalid, message) ==
  IF invalid THEN Append(errors, message) ELSE errors

\* validateCODForm stopping at the first error
FirstError(data) ==
  IF NameInvalid(data.name) THEN <<"Name must be at least 2 characters long">>
  ELSE IF PhoneInvalid(data.phone) THEN <<"Phone number must be 10 digits">>
  ELSE IF EmailInvalid(data.email) THEN <<"Invalid email format">>
  ELSE IF AddressInvalid(data.address)
    THEN <<"Address must be at least 10 characters long">>
  ELSE IF CityInvalid(data.city) THEN <<"City is required">>
  ELSE IF StateInvalid(data.state) THEN <<"State is required">>
  ELSE IF PincodeInvalid(data.pincode) THEN <<"Pincode must be 6 digits">>
  ELSE IF QuantityInvalid(data.quantity)
    THEN <<"Quantity must be between 1 and 10">>
  ELSE <<>>

\* validateCODForm: the errors it has collected when it decides to throw
ValidateCODForm(data) ==
  LET name == Push(<<>>, NameInvalid(data.name),
                   "Name must be at least 2 characters long")
      phone == Push(name, PhoneInvalid(data.phone),
                    "Phone number must be 10 digits")
      email == Push(phone, EmailInvalid(data.email), "Invalid email format")
      address == Push(email, AddressInvalid(data.address),
                      "Address must be at least 10 characters long")
      city == Push(address, CityInvalid(data.city), "City is required")
      state == Push(city, StateInvalid(data.state), "State is required")
      pincode == Push(state, PincodeInvalid(data.pincode),
                      "Pincode must be 6 digits")
  IN Push(pincode, QuantityInvalid(data.quantity),
          "Quantity must be between 1 and 10")

\* the digits of radix 36, as Number.prototype.toString(36) writes them
Radix36 ==
  <<"0", "1", "2", "3", "4", "5", "6", "7", "8", "9", "a", "b", "c", "d", "e",
    "f", "g", "h", "i", "j", "k", "l", "m", "n", "o", "p", "q", "r", "s", "t",
    "u", "v", "w", "x", "y", "z">>
UpperCase36 ==
  <<"0", "1", "2", "3", "4", "5", "6", "7", "8", "9", "A", "B", "C", "D", "E",
    "F", "G", "H", "I", "J", "K", "L", "M", "N", "O", "P", "Q", "R", "S", "T",
    "U", "V", "W", "X", "Y", "Z">>

\* n.toString(36) of an integer n >= 0
RECURSIVE IntegerToString36(_)
IntegerToString36(n) ==
  IF n < 36 THEN <<Radix36[n + 1]>>
  ELSE Append(IntegerToString36(n \div 36), Radix36[(n % 36) + 1])

\* the digits after the point of (num / den).toString(36), for a fraction
\* whose expansion in radix 36 ends (den a power of two)
RECURSIVE FractionDigits36(_, _)
FractionDigits36(num, den) ==
  IF num = 0 THEN <<>>
  ELSE <<Radix36[((num * 36) \div den) + 1]>>
         \o FractionDigits36((num * 36) % den, den)

\* Math.random().toString(36), Math.random() being random.num / random.den
RandomToString36(random) ==
  IF random.num = 0 THEN <<"0">>
  ELSE <<"0", ".">> \o FractionDigits36(random.num, random.den)

\* s.substr(start, length)
Substr(s, start, length) ==
  IF start >= Len(s) THEN <<>>
  ELSE SubSeq(s, start + 1, IF start + length < Len(s) THEN start + length
                            ELSE Len(s))

\* s.toUpperCase(), for the characters an order id is made of
ToUpperCase(s) ==
  [i \in 1..Len(s) |->
     IF \E k \in 1..36 : Radix36[k] = s[i]
       THEN UpperCase36[CHOOSE k \in 1..36 : Radix36[k] = s[i]]
       ELSE s[i]]

\* generateOrderId, Date.now() being now
GenerateOrderId(now, random) ==
  ToUpperCase(<<"C", "O", "D", "-">> \o IntegerToString36(now) \o <<"-">>
              \o Substr(RandomToString36(random), 2, 5))

NoResponse == [orderId |-> <<>>, success |-> FALSE, message |-> ""]

\* No order has been submitted.
NoSubmission ==
  /\ formData = [f \in {Fields[i] : i \in 1..Len(Fields)} |->
                   IF f = "quantity" THEN 0 ELSE <<>>]
  /\ response = NoResponse
  /\ processedOrders = <<>>

\* submitOrder: validateCODForm, generateOrderId and processOrder, or the
\* catch block
SubmitOrder(now, random) ==
  /\ response = NoResponse
  /\ LET errors == ValidateCODForm(formData)
         orderId == GenerateOrderId(now, random)
     IN IF errors # <<>>
          THEN /\ response' = [orderId |-> <<>>, success |-> FALSE,
                               message |-> Join(errors)]
               /\ UNCHANGED processedOrders
          ELSE /\ response' =
                    [orderId |-> orderId, success |-> TRUE,
                     message |-> "Order placed successfully! You will receive a confirmation call within 2 hours."]
               /\ processedOrders' = Append(processedOrders, orderId)
  /\ UNCHANGED <<engine, storeVars, clock, budget, ret, paged, generation,
                 formData, hook>>

----------------------------------------------------------------------------
(* The inputs explored. *)

Bool == {TRUE, FALSE}

\* ids asked for: two of the mock data's, and one generateId can hand out
IdArgs == {<<"1">>, <<"2">>, <<"9">>}

UserDatas ==
  {[name |-> <<"A", "l">>, email |-> <<"a", "l", "@", "x">>, role |-> ""],
   [name |-> <<"B", "o">>, email |-> <<"b", "o", "@", "x">>, role |-> "admin"]}

\* an UpdateUserRequest: fields are the properties present
UserPartials ==
  {[fields |-> {}, vals |-> [name |-> <<>>, email |-> <<>>, role |-> ""]],
   [fields |-> {"name"}, vals |-> [name |-> <<"Z", "o", "e">>, email |-> <<>>, role |-> ""]]}

ProductDatas ==
  {[name |-> <<"M", "u", "g">>, description |-> <<"A", " ", "m", "u", "g">>,
    price |-> 1250, category |-> <<"H", "o", "m", "e">>, stock |-> 7],
   [name |-> <<"P", "e", "n">>, description |-> <<"A", " ", "p", "e", "n">>,
    price |-> 300, category |-> <<"O", "f", "f", "i", "c", "e">>, stock |-> 0]}

NoProductVals ==
  [name |-> <<>>, description |-> <<>>, price |-> 0, category |-> <<>>, stock |-> 0]

\* an UpdateProductRequest
ProductPartials ==
  {[fields |-> {}, vals |-> NoProductVals],
   [fields |-> {"price"}, vals |-> [NoProductVals EXCEPT !.price = 100]]}

\* a CreateOrderRequest; the shipping address is one of mockAddresses
OrderDatas ==
  {[userId |-> <<"2">>,
    items |-> <<[productId |-> <<"1">>, quantity |-> 2],
                [productId |-> <<"2">>, quantity |-> 1]>>,
    shippingAddress |-> 1],
   [userId |-> <<"2">>,
    items |-> <<[productId |-> <<"1">>, quantity |-> 1],
                [productId |-> <<"9">>, quantity |-> 3]>>,
    shippingAddress |-> 2],
   [userId |-> <<"9">>,
    items |-> <<[productId |-> <<"2">>, quantity |-> 1]>>,
    shippingAddress |-> 3]}

\* the generateId results of the items of one createOrder call
ItemIdDraws(n) ==
  {[i \in 1..n |-> <<"9">>], [i \in 1..n |-> IF i = 1 THEN <<"i">> ELSE <<"9">>]}

\* an UpdateOrderRequest
OrderPartials ==
  {[fields |-> {}, vals |-> [status |-> "", shippingAddress |-> 0]],
   [fields |-> {"status"}, vals |-> [status |-> "shipped", shippingAddress |-> 0]]}

\* the QueryParams the list operations are called with on the mock data
UserListParams ==
  {NoParams,
   [NoParams EXCEPT !.page = 2, !.limit = 2, !.sortBy = "createdAt",
                    !.sortOrder = "desc"],
   [NoParams EXCEPT !.search = <<"J", "O", "H", "N">>, !.sortBy = "name"]}

ProductListParams ==
  {NoParams,
   [NoParams EXCEPT !.category = <<"e", "l", "e", "c", "t", "r", "o", "n", "i", "c", "s">>,
                    !.sortBy = "price"],
   [NoParams EXCEPT !.search = <<"c", "h", "a", "i", "r">>, !.page = 3]}

OrderListParams ==
  {NoParams,
   [NoParams EXCEPT !.status = "pending", !.sortBy = "total", !.sortOrder = "desc"],
   [NoParams EXCEPT !.search = <<"j", "a", "n", "e">>, !.limit = 1]}

----------------------------------------------------------------------------
(* The mock API from its initial data. *)

\* A client paging through one query (key): the pages 1..upTo were fetched in
\* turn and data is their concatenation; totalPages is what page 1 reported.
NoPaging == [key |-> NoParams, upTo |-> 0, totalPages |-> 0, data |-> <<>>]

----------------------------------------------------------------------------
(* Calls of the user operations issued together.  Every operation awaits   *)
(* delay() once, first, and has no other await: a call is issued, waits,   *)
(* and then runs the rest of its body in one step.                         *)

\* no call has been issued
NoCalls == inFlight = <<>>

\* what the user operations work on
UserStore == [mockUsers |-> mockUsers, userObjs |-> userObjs, clock |-> clock]

\* mockUsers.findIndex(u => u.id === id) on a store, 1-based; 0 for -1
FindIndexIn(store, id) ==
  IF \E i \in 1..Len(store.mockUsers) : store.userObjs[store.mockUsers[i]].id = id
  THEN CHOOSE i \in 1..Len(store.mockUsers) :
         /\ store.userObjs[store.mockUsers[i]].id = id
         /\ \A j \in 1..(i - 1) : store.userObjs[store.mockUsers[j]].id # id
  ELSE 0

\* a lookup made when the call is issued, before the delay
LocatedAtIssue(store, call) == call.found

\* The lookup of updateUser and deleteUser: findIndex follows the await, it
\* runs on the store as it is when the call resumes.
Located(store, call) == FindIndexIn(store, call.id)

\* updateUser from the await on
UpdateUserAfterDelay(store, call) ==
  LET userIndex == Located(store, call)
  IN IF userIndex = 0
     THEN [store |-> store, status |-> "notfound"]
     ELSE LET updatedUser ==
                [Merge(store.userObjs[store.mockUsers[userIndex]], call.userData)
                   EXCEPT !.updatedAt = store.clock]
          IN [store |-> [mockUsers |-> [store.mockUsers EXCEPT
                                          ![userIndex] = Len(store.userObjs) + 1],
                         userObjs |-> Append(store.userObjs, updatedUser),
                         clock |-> store.clock + 1],
              status |-> "ok"]

\* deleteUser from the await on
DeleteUserAfterDelay(store, call) ==
  LET userIndex == Located(store, call)
  IN IF userIndex = 0
     THEN [store |-> store, status |-> "notfound"]
     ELSE [store |-> [store EXCEPT !.mockUsers = Splice(@, userIndex)],
           status |-> "ok"]

\* createUser from the await on
CreateUserAfterDelay(store, call) ==
  LET newUser == [id |-> call.id, name |-> call.userData.vals.name,
                  email |-> call.userData.vals.email,
                  role |-> IF call.userData.vals.role # ""
                           THEN call.userData.vals.role ELSE "user",
                  createdAt |-> store.clock, updatedAt |-> store.clock]
  IN [store |-> [mockUsers |-> Append(store.mockUsers, Len(store.userObjs) + 1),
                 userObjs |-> Append(store.userObjs, newUser),
                 clock |-> store.clock + 1],
      status |-> "ok"]

\* What a call does once its delay has resolved; err is what
\* shouldSimulateError() answers.
AfterDelay(store, call, err) ==
  IF err THEN [store |-> store, status |-> "transient"]
  ELSE CASE call.op = "updateUser" -> UpdateUserAfterDelay(store, call)
         [] call.op = "deleteUser" -> DeleteUserAfterDelay(store, call)
         [] call.op = "createUser" -> CreateUserAfterDelay(store, call)

apartFromUsers == <<engine, productObjs, orderObjs, mockProducts, mockOrders, budget,
                    ret, paged, generation, checkout, productUrl, mutation, pageVars>>

\* A caller calls an operation: the async function runs up to await delay()
\* and reads nothing of the store.  found is where a lookup made now would
\* find the record; the operation does not make it.
Issue(call) ==
  /\ Len(inFlight) < MaxCalls
  /\ inFlight' = Append(inFlight, [call EXCEPT !.at = "delay",
                                               !.found = FindIndexIn(UserStore, call.id)])
  /\ UNCHANGED <<apartFromUsers, mockUsers, userObjs, clock>>

\* the calls that have run to their end
Done == {c \in 1..Len(inFlight) : inFlight[c].at = "done"}

\* The delay of call c resolves: the rest of the operation runs.  turn is
\* its place among the calls that resumed, raced whether another call was
\* waiting at that moment.
Resume(c, err) ==
  /\ inFlight[c].at = "delay"
  /\ LET result == AfterDelay(UserStore, inFlight[c], err)
     IN /\ mockUsers' = result.store.mockUsers
        /\ userObjs' = result.store.userObjs
        /\ clock' = result.store.clock
        /\ inFlight' = [inFlight EXCEPT
                          ![c] = [@ EXCEPT !.at = "done", !.status = result.status,
                                           !.turn = Cardinality(Done) + 1,
                                           !.raced = \E d \in 1..Len(inFlight) :
                                                       /\ d # c
                                                       /\ inFlight[d].at = "delay"]]
  /\ UNCHANGED apartFromUsers

StoreInit(steps) ==
  /\ userObjs = InitUsers
  /\ productObjs = InitProducts
  /\ orderObjs = InitOrders
  /\ mockUsers = [i \in 1..Len(InitUsers) |-> i]
  /\ mockProducts = [i \in 1..Len(InitProducts) |-> i]
  /\ mockOrders = [i \in 1..Len(InitOrders) |-> i]
  /\ clock = Clock0
  /\ budget = steps
  /\ ret = NoRet
  /\ paged = NoPaging
  /\ NoRun
  /\ NoSubmission
  /\ NoMutation
  /\ NoCalls

Init == engine \in Engines /\ StoreInit(MaxOps)

Next ==
  \/ \E params \in UserListParams, err \in Bool : GetUsers(params, err)
  \/ \E id \in IdArgs, err \in Bool : GetUserById(id, err)
  \/ \E userData \in UserDatas, id \in GenerateId, err \in Bool :
       CreateUser(userData, id, err)
  \/ \E id \in IdArgs, userData \in UserPartials, err \in Bool :
       UpdateUser(id, userData, err)
  \/ \E id \in IdArgs, err \in Bool : DeleteUser(id, err)
  \/ \E params \in ProductListParams, err \in Bool : GetProducts(params, err)
  \/ \E id \in IdArgs, err \in Bool : GetProductById(id, err)
  \/ \E productData \in ProductDatas, id \in GenerateId, err \in Bool :
       CreateProduct(productData, id, err)
  \/ \E id \in IdArgs, productData \in ProductPartials, err \in Bool :
       UpdateProduct(id, productData, err)
  \/ \E id \in IdArgs, err \in Bool : DeleteProduct(id, err)
  \/ \E params \in OrderListParams, err \in Bool : GetOrders(params, err)
  \/ \E id \in IdArgs, err \in Bool : GetOrderById(id, err)
  \/ \E orderData \in OrderDatas, id \in GenerateId, err \in Bool :
       \E itemIds \in ItemIdDraws(Len(orderData.items)) :
         CreateOrder(orderData, itemIds, id, err)
  \/ \E id \in IdArgs, orderData \in OrderPartials, err \in Bool :
       UpdateOrder(id, orderData, err)
  \/ \E id \in IdArgs, err \in Bool : DeleteOrder(id, err)
  \/ \E err \in Bool : GetStats(err)
  \/ \E ref \in Handed(ret) : CallerWrites(ref)

Spec == Init /\ [][Next]_vars

----------------------------------------------------------------------------
(* Reading and rewriting: the list operations, and the updates, deletes    *)
(* and orders that change what they read.                                  *)

MockNext ==
  \/ \E params \in UserListParams, err \in Bool : GetUsers(params, err)
  \/ \E params \in ProductListParams, err \in Bool : GetProducts(params, err)
  \/ \E params \in OrderListParams, err \in Bool : GetOrders(params, err)
  \/ \E id \in IdArgs, userData \in UserPartials, err \in Bool :
       UpdateUser(id, userData, err)
  \/ \E id \in IdArgs, productData \in ProductPartials, err \in Bool :
       UpdateProduct(id, productData, err)
  \/ \E id \in IdArgs, orderData \in OrderPartials, err \in Bool :
       UpdateOrder(id, orderData, err)
  \/ \E id \in IdArgs, err \in Bool : DeleteUser(id, err)
  \/ \E id \in IdArgs, err \in Bool : DeleteProduct(id, err)
  \/ \E orderData \in OrderDatas, id \in GenerateId, err \in Bool :
       \E itemIds \in ItemIdDraws(Len(orderData.items)) :
         CreateOrder(orderData, itemIds, id, err)

MockSpec == Init /\ [][MockNext]_vars

----------------------------------------------------------------------------
(* The user operations alone, from the mock data. *)

UserInit == engine \in Engines /\ StoreInit(MaxUserOps)

UserNext ==
  \/ \E id \in IdArgs, err \in Bool : GetUserById(id, err)
  \/ \E userData \in UserDatas, id \in GenerateId, err \in Bool :
       CreateUser(userData, id, err)
  \/ \E id \in IdArgs, userData \in UserPartials, err \in Bool :
       UpdateUser(id, userData, err)
  \/ \E id \in IdArgs, err \in Bool : DeleteUser(id, err)

UserSpec == UserInit /\ [][UserNext]_vars

----------------------------------------------------------------------------
(* Ordering: createOrder and the operations that change what it looks up.  *)
(* None of them sorts, so the engine plays no part.                        *)

OrderInit == engine = "v8" /\ StoreInit(MaxOrderOps)

OrderNext ==
  \/ \E orderData \in OrderDatas, id \in GenerateId, err \in Bool :
       \E itemIds \in ItemIdDraws(Len(orderData.items)) :
         CreateOrder(orderData, itemIds, id, err)
  \/ \E productData \in ProductDatas, id \in GenerateId, err \in Bool :
       CreateProduct(productData, id, err)
  \/ \E id \in IdArgs, productData \in ProductPartials, err \in Bool :
       UpdateProduct(id, productData, err)
  \/ \E id \in IdArgs, err \in Bool : DeleteProduct(id, err)
  \/ \E id \in IdArgs, err \in Bool : DeleteUser(id, err)

OrderSpec == OrderInit /\ [][OrderNext]_vars

----------------------------------------------------------------------------
(* The list operation on any collection: a user collection and a query are *)
(* drawn, and a client fetches pages of that query.                        *)

\* the user records a drawn collection is made of: two share a name, two a
\* creation time, and "b" occurs in one name (in upper case) and one email
DrawnUsers ==
  {[name |-> <<"a">>, email |-> <<"z">>, createdAt |-> 1],
   [name |-> <<"A", "B">>, email |-> <<"z">>, createdAt |-> 1],
   [name |-> <<"a">>, email |-> <<"b", "@">>, createdAt |-> 2]}

DrawnCollections == UNION {[1..n -> DrawnUsers] : n \in 0..MaxLen}

\* the id of the record at a position: "1", "2", ...
PositionId(i) == <<Chars[Code("0") + i]>>

\* the queries drawn; the page is chosen call by call
DrawnQueries ==
  {[NoParams EXCEPT !.limit = limit, !.search = search, !.sortBy = sort[1],
                    !.sortOrder = sort[2]] :
     limit \in {0, 1, 2}, search \in {<<>>, <<"b">>},
     sort \in {<<"", "">>, <<"name", "">>, <<"name", "desc">>,
               <<"createdAt", "asc">>, <<"createdAt", "desc">>}}

QueryInit ==
  /\ engine \in Engines
  /\ \E drawn \in DrawnCollections :
       /\ userObjs = [i \in 1..Len(drawn) |->
                        [id |-> PositionId(i), name |-> drawn[i].name,
                         email |-> drawn[i].email, role |-> "user",
                         createdAt |-> drawn[i].createdAt,
                         updatedAt |-> drawn[i].createdAt]]
       /\ mockUsers = [i \in 1..Len(drawn) |-> i]
  /\ productObjs = <<>>
  /\ orderObjs = <<>>
  /\ mockProducts = <<>>
  /\ mockOrders = <<>>
  /\ clock = Clock0
  /\ budget = 0
  /\ ret = NoRet
  /\ \E query \in DrawnQueries : paged = [NoPaging EXCEPT !.key = query]
  /\ NoRun
  /\ NoSubmission
  /\ NoMutation
  /\ NoCalls

\* The client asks for a page of its query; it keeps the pages it fetched in
\* turn from page 1 and starts over on any other page.
QueryUsers(page, err) ==
  /\ GetUsersCall([paged.key EXCEPT !.page = page], err)
  /\ LET result == FilterAndPaginate(mockUsers, [paged.key EXCEPT !.page = page],
                                     "user")
     IN paged' =
          IF err THEN paged
          ELSE IF result.pagination.page = 1
          THEN [paged EXCEPT !.upTo = 1, !.data = result.data,
                             !.totalPages = result.pagination.totalPages]
          ELSE IF paged.upTo >= 1 /\ result.pagination.page = paged.upTo + 1
          THEN [paged EXCEPT !.upTo = paged.upTo + 1,
                             !.data = paged.data \o result.data]
          ELSE [paged EXCEPT !.upTo = 0, !.data = <<>>, !.totalPages = 0]

QueryNext == \E page \in 0..MaxPage, err \in Bool : QueryUsers(page, err)

QuerySpec == QueryInit /\ [][QueryNext]_vars

----------------------------------------------------------------------------
(* One run of the generator, constructed with or without a progress        *)
(* callback, on any request and any answers of the services.               *)

\* request.customizations: absent, or with countdownHours and urgencyLevel
Requests ==
  {[countdownHours |-> 0, urgencyLevel |-> ""],
   [countdownHours |-> 48, urgencyLevel |-> "high"]}

\* what chatCompletion gives: a reply that is JSON of the shape asked for,
\* prose or nothing, the JSON null, a JSON number, or an error thrown
Answers == {"json", "text", "null", "number", "error"}
Statuses == {"successful", "failed", "in-progress"}

PipelineInit ==
  /\ engine = "v8"
  /\ userObjs = InitUsers
  /\ productObjs = InitProducts
  /\ orderObjs = InitOrders
  /\ mockUsers = [i \in 1..Len(InitUsers) |-> i]
  /\ mockProducts = [i \in 1..Len(InitProducts) |-> i]
  /\ mockOrders = [i \in 1..Len(InitOrders) |-> i]
  /\ clock = Clock0
  /\ budget = 0
  /\ ret = NoRet
  /\ paged = NoPaging
  /\ progressCallback \in Bool
  /\ request \in Requests
  /\ pc = "idle"
  /\ attempts = 0
  /\ locals = NoLocals
  /\ processedImages = <<>>
  /\ trace = <<>>
  /\ landingPage = NoData
  /\ NoSubmission
  /\ NoMutation
  /\ NoCalls

PipelineNext ==
  \/ GenerateLandingPage
  \/ \E ok \in Bool : ScrapeProductPage(ok)
  \/ \E status \in Statuses, images \in 0..MaxImages :
       PollTaskCompletion(status, images)
  \/ \E ok \in Bool : ScrapeFallback(ok)
  \/ \E ok \in Bool : ExtractFallback(ok)
  \/ \E answer \in Answers : ClassifyProduct(answer)
  \/ \E answer \in Answers : GenerateDesignTheme(answer)
  \/ \E answer \in Answers : GenerateContent(answer)
  \/ \E removed \in Bool, uploaded \in Bool :
       ProcessProductImage(removed, uploaded)
  \/ Complete

PipelineSpec == PipelineInit /\ [][PipelineNext]_vars

\* how many binary places a drawn Math.random() has at most
MaxRandomBits == 12

RECURSIVE Power(_, _)
Power(base, exponent) ==
  IF exponent = 0 THEN 1 ELSE base * Power(base, exponent - 1)

\* values of Math.random(): 0, and the least and the greatest fraction of
\* each number of binary places
Randoms ==
  {[num |-> 0, den |-> 1]}
    \cup {[num |-> num, den |-> Power(2, bits)] :
            bits \in 1..MaxRandomBits, num \in {1}}
    \cup {[num |-> Power(2, bits) - 1, den |-> Power(2, bits)] :
            bits \in 1..MaxRandomBits}

\* values of Date.now()
Timestamps == {0, 36, 1762300800}

Text(char, length) == [i \in 1..length |-> char]

FormDatas ==
  [name : {<<>>, <<"A">>, <<"A", "l">>},
   phone : {Text("1", 5), Text("9", 10), Text("9", 11),
            Append(Text("9", 9), "x")},
   email : {<<>>, <<"a", "@", "b", ".", "c">>, <<"a", "@", "b">>,
            <<"a", "@", "b", "@", "c", ".", "d">>,
            <<"a", " ", "@", "b", ".", "c">>, <<"a", "@", ".", "c">>,
            <<"a", ".", "b", "@", "c", ".", "d", ".", "e">>},
   address : {<<>>, Text("a", 9), Text("a", 10)},
   city : {<<"P">>, <<"P", "u">>},
   state : {<<>>, <<"M", "H">>},
   pincode : {Text("4", 5), Text("4", 6), Append(Text("4", 5), "x")},
   quantity : {0, 1, 10, 11}]

CheckoutInit ==
  /\ engine = "v8"
  /\ userObjs = InitUsers
  /\ productObjs = InitProducts
  /\ orderObjs = InitOrders
  /\ mockUsers = [i \in 1..Len(InitUsers) |-> i]
  /\ mockProducts = [i \in 1..Len(InitProducts) |-> i]
  /\ mockOrders = [i \in 1..Len(InitOrders) |-> i]
  /\ clock = Clock0
  /\ budget = 0
  /\ ret = NoRet
  /\ paged = NoPaging
  /\ NoRun
  /\ NoMutation
  /\ NoCalls
  /\ formData \in FormDatas
  /\ response = NoResponse
  /\ processedOrders = <<>>

CheckoutNext ==
  \E now \in Timestamps, random \in Randoms : SubmitOrder(now, random)

CheckoutSpec == CheckoutInit /\ [][CheckoutNext]_vars

ProductUrls ==
  {<<"h", "t", "t", "p", "s", ":", "/", "/", "w", "w", "w", ".", "a", "m",
     "a", "z", "o", "n", ".", "i", "n", "/", "d", "p", "/", "X", "Y", "Z">>,
   <<"h", "t", "t", "p", "s", ":", "/", "/", "a", "m", "a", "z", "o", "n",
     ".", "c", "o", "m", "/">>,
   <<"h", "t", "t", "p", "s", ":", "/", "/", "F", "L", "I", "P", "K", "A",
     "R", "T", ".", "c", "o", "m", "/", "x">>,
   <<"h", "t", "t", "p", "s", ":", "/", "/", "r", "a", "n", "d", "o", "m",
     "s", "h", "o", "p", ".", "e", "x", "a", "m", "p", "l", "e", "/", "p",
     "/", "1">>,
   <<"h", "t", "t", "p", "s", ":", "/", "/", "s", "h", "o", "p", ".", "e",
     "x", "a", "m", "p", "l", "e", "/", "a", "m", "a", "z", "o", "n", ".",
     "c", "o", "m">>,
   <<"a", "m", "a", "z", "o", "n", ".", "c", "o", "m", "/", "d", "p", "/",
     "1">>,
   <<"h", "t", "t", "p", "s", ":", "/", "/", "n", "o", "t", "a", "m", "a",
     "z", "o", "n", ".", "c", "o", "m", "/", "p">>,
   <<"h", "t", "t", "p", "s", ":", "/", "/", "a", "m", "a", "z", "o", "n",
     ".", "c", "o", "m", ".", "e", "v", "i", "l", ".", "e", "x", "a", "m",
     "p", "l", "e", "/">>}

HookInit ==
  /\ engine = "v8"
  /\ userObjs = InitUsers
  /\ productObjs = InitProducts
  /\ orderObjs = InitOrders
  /\ mockUsers = [i \in 1..Len(InitUsers) |-> i]
  /\ mockProducts = [i \in 1..Len(InitProducts) |-> i]
  /\ mockOrders = [i \in 1..Len(InitOrders) |-> i]
  /\ clock = Clock0
  /\ budget = 0
  /\ ret = NoRet
  /\ paged = NoPaging
  /\ progressCallback = TRUE
  /\ request = [countdownHours |-> 0, urgencyLevel |-> ""]
  /\ pc = "idle"
  /\ attempts = 0
  /\ locals = NoLocals
  /\ processedImages = <<>>
  /\ trace = <<>>
  /\ landingPage = NoData
  /\ NoSubmission
  /\ productUrl \in ProductUrls
  /\ mutation = [status |-> "idle", error |-> NoError]
  /\ NoRuns
  /\ NoCalls

HookNext ==
  \/ MutationFn
  \/ \E ok \in Bool : ScrapeProductPage(ok)
  \/ \E status \in Statuses, images \in 0..MaxImages :
       PollTaskCompletion(status, images)
  \/ \E ok \in Bool : ScrapeFallback(ok)
  \/ \E ok \in Bool : ExtractFallback(ok)
  \/ \E answer \in Answers : ClassifyProduct(answer)
  \/ \E answer \in Answers : GenerateDesignTheme(answer)
  \/ \E answer \in Answers : GenerateContent(answer)
  \/ \E removed \in Bool, uploaded \in Bool :
       ProcessProductImage(removed, uploaded)
  \/ Complete
  \/ Settled

HookSpec == HookInit /\ [][HookNext]_vars

\* the URLs generate is called with: a supported one and an unsupported one
GenerateUrls ==
  {<<"h", "t", "t", "p", "s", ":", "/", "/", "a", "m", "a", "z", "o", "n", ".", "c", "o", "m", "/">>,
   <<"h", "t", "t", "p", "s", ":", "/", "/", "r", "a", "n", "d", "o", "m", "s", "h", "o", "p", ".", "e", "x", "a", "m", "p", "l", "e", "/", "p", "/", "1">>}

RunsInit ==
  /\ engine = "v8"
  /\ userObjs = InitUsers
  /\ productObjs = InitProducts
  /\ orderObjs = InitOrders
  /\ mockUsers = [i \in 1..Len(InitUsers) |-> i]
  /\ mockProducts = [i \in 1..Len(InitProducts) |-> i]
  /\ mockOrders = [i \in 1..Len(InitOrders) |-> i]
  /\ clock = Clock0
  /\ budget = 0
  /\ ret = NoRet
  /\ paged = NoPaging
  /\ NoRun
  /\ NoSubmission
  /\ NoMutation
  /\ NoCalls

\* the hook as any caller may use it
RunsNext ==
  \/ \E url \in GenerateUrls : Generate(url)
  \/ \E run \in 1..Len(runs) : Progressed(run)
  \/ \E run \in 1..Len(runs) : Completed(run)
  \/ \E run \in 1..Len(runs) : OnSuccess(run)
  \/ \E run \in 1..Len(runs) : OnError(run)
  \/ Reset

RunsSpec == RunsInit /\ [][RunsNext]_vars

\* the hook as the LandingPageGenerator page uses it
PageNext ==
  \/ \E url \in GenerateUrls : HandleGenerate(url)
  \/ \E run \in 1..Len(runs) : Progressed(run)
  \/ \E run \in 1..Len(runs) : Completed(run)
  \/ \E run \in 1..Len(runs) : OnSuccess(run)
  \/ \E run \in 1..Len(runs) : OnError(run)
  \/ HandleReset
  \/ GoToPreview
  \/ HandlePublish

PageSpec == RunsInit /\ [][PageNext]_vars

----------------------------------------------------------------------------
(* Callers that do not wait for one call to settle before the next.        *)

NoCall ==
  [op |-> "none", id |-> <<>>,
   userData |-> [fields |-> {}, vals |-> [name |-> <<>>, email |-> <<>>, role |-> ""]],
   at |-> "idle", found |-> 0, status |-> "none", turn |-> 0, raced |-> FALSE]

\* the calls issued: updates of the name or of the email, deletes, and the
\* creation of a user under an id generateId can hand out
ConcurrentCalls ==
  {[NoCall EXCEPT !.op = "updateUser", !.id = id, !.userData = userData] :
     id \in {<<"1">>, <<"9">>},
     userData \in {[fields |-> {"name"},
                    vals |-> [name |-> <<"Z", "o", "e">>, email |-> <<>>, role |-> ""]],
                   [fields |-> {"email"},
                    vals |-> [name |-> <<>>, email |-> <<"z", "@", "x">>, role |-> ""]]}}
  \cup {[NoCall EXCEPT !.op = "deleteUser", !.id = id] : id \in {<<"1">>, <<"9">>}}
  \cup {[NoCall EXCEPT !.op = "createUser", !.id = <<"9">>,
                       !.userData = [fields |-> {"name", "email", "role"},
                                     vals |-> [name |-> <<"A", "l">>,
                                               email |-> <<"a", "l", "@", "x">>,
                                               role |-> ""]]]}

ConcurrentNext ==
  \/ \E call \in ConcurrentCalls : Issue(call)
  \/ \E c \in 1..Len(inFlight), err \in Bool : Resume(c, err)

ConcurrentSpec == RunsInit /\ [][ConcurrentNext]_vars

----------------------------------------------------------------------------
(* Properties of the list operation (QuerySpec). *)

\* the effective page and limit of a query
PageOf(params) == IF params.page # 0 THEN params.page ELSE DefaultPage
LimitOf(params) == IF params.limit # 0 THEN params.limit ELSE DefaultLimit

\* the user records that pass a query's filter
Passing(params) ==
  {mockUsers[i] : i \in {j \in 1..Len(mockUsers) :
                           \/ params.search = <<>>
                           \/ FilterFn("user", mockUsers[j], params.search)}}

\* the number of pages of the given size that hold n records
PagesFor(n, limit) ==
  CHOOSE k \in 0..n : k * limit >= n /\ (k = 0 \/ (k - 1) * limit < n)

\* where a record stands in the collection
PositionIn(data, ref) == CHOOSE i \in 1..Len(data) : data[i] = ref

\* C1: a list call reports as total the number of records that pass the
\* filter, and the pages 1..totalPages of a query together hold each of these
\* records exactly once: their lengths add up to total.
C1_TotalAndPages ==
  /\ (ret.op = "getUsers" /\ ret.status = "ok")
       => ret.pagination.total = Cardinality(Passing(ret.params))
  /\ (paged.upTo >= 1 /\ paged.upTo = paged.totalPages)
       => /\ Len(paged.data) = Cardinality(Passing(paged.key))
          /\ \A r \in Passing(paged.key) :
               Cardinality({i \in 1..Len(paged.data) : paged.data[i] = r}) = 1

\* a client has fetched every page of a searched and sorted query of several
\* pages that leaves some records out
C1_Witness ==
  /\ paged.upTo >= 2
  /\ paged.upTo = paged.totalPages
  /\ paged.key.search # <<>>
  /\ paged.key.sortBy # ""
  /\ Cardinality(Passing(paged.key)) < Len(mockUsers)
  /\ Len(paged.data) >= 2

\* C2: with sortBy set the output is ordered by that field, ascending or
\* descending as sortOrder says, and records with equal keys keep the order
\* they have in the collection.
C2_SortedAndStable ==
  (ret.op = "getUsers" /\ ret.status = "ok" /\ ret.params.sortBy # "")
    => \A i, j \in 1..Len(ret.list) :
         i < j =>
           LET a == SortValue("user", ret.list[i], ret.params.sortBy)
               b == SortValue("user", ret.list[j], ret.params.sortBy)
           IN /\ IF ret.params.sortOrder = "desc"
                 THEN ~Greater(b, a) ELSE ~Greater(a, b)
              /\ a = b => PositionIn(mockUsers, ret.list[i])
                            < PositionIn(mockUsers, ret.list[j])

\* C3: a list call for a page past the last one resolves with an empty data
\* array and the right total and totalPages; the only failure of a list call
\* is the injected one, whatever the page.
C3_PastLastPage ==
  ret.op = "getUsers" =>
    /\ ret.status \in {"ok", "transient"}
    /\ (ret.status = "ok"
         /\ PageOf(ret.params)
              > PagesFor(Cardinality(Passing(ret.params)), LimitOf(ret.params)))
        => /\ ret.list = <<>>
           /\ ret.pagination.total = Cardinality(Passing(ret.params))
           /\ ret.pagination.totalPages
                = PagesFor(Cardinality(Passing(ret.params)), LimitOf(ret.params))

\* a page past the last page of a query that matches some records, and a
\* page of a query that matches none
C3_Witness ==
  /\ ret.op = "getUsers"
  /\ ret.status = "ok"
  /\ ret.pagination.totalPages >= 2
  /\ ret.pagination.page > ret.pagination.totalPages
  /\ ret.list = <<>>

----------------------------------------------------------------------------
(* Properties of order creation (OrderSpec). *)

\* the sum of price * quantity over the items of an order
RECURSIVE ItemsTotal(_)
ItemsTotal(items) ==
  IF items = <<>> THEN 0
  ELSE Head(items).price * Head(items).quantity + ItemsTotal(Tail(items))

\* the ids of the records of a collection
Ids(data, kind) == {Obj(kind, data[i]).id : i \in 1..Len(data)}

\* this step added an order to the collection
OrderAdded == Len(mockOrders') = Len(mockOrders) + 1

\* C4: the order that createOrder adds has as total the sum of price times
\* quantity over its items, each item's price being the price its product had
\* when the order was created; and a step that changes the products, by
\* updateProduct or deleteProduct, leaves every order, its total and the
\* prices of its items as they were.
C4_PriceSnapshot ==
  [][LET order == orderObjs'[mockOrders'[Len(mockOrders')]]
     IN /\ OrderAdded =>
             /\ order.total = ItemsTotal(order.items)
             /\ \A i \in 1..Len(order.items) :
                  order.items[i].price =
                    productObjs[Find(mockProducts, "product",
                                     order.items[i].productId)].price
        /\ (mockProducts' # mockProducts) =>
             /\ mockOrders' = mockOrders
             /\ \A k \in 1..Len(mockOrders) :
                  LET before == orderObjs[mockOrders[k]]
                      after  == orderObjs'[mockOrders'[k]]
                  IN /\ after.total = before.total
                     /\ Len(after.items) = Len(before.items)
                     /\ \A i \in 1..Len(before.items) :
                          after.items[i].price = before.items[i].price]_vars

\* an order made by createOrder, of several items and with a quantity above
\* one, whose product has since changed its price, and another of its
\* products is deleted
C4_Witness ==
  \E k \in 1..Len(mockOrders) :
    LET order == orderObjs[mockOrders[k]]
    IN /\ order.createdAt >= Clock0
       /\ Len(order.items) >= 2
       /\ \E i \in 1..Len(order.items) : order.items[i].quantity >= 2
       /\ \E i \in 1..Len(order.items) :
            LET product == Find(mockProducts, "product", order.items[i].productId)
            IN product # 0 /\ productObjs[product].price # order.items[i].price
       /\ \E i \in 1..Len(order.items) :
            Find(mockProducts, "product", order.items[i].productId) = 0

\* C5: createOrder adds an order only when the user and every product the
\* order names are in the store; a call that finds the user or a product
\* missing ends with a not-found error for that very id and leaves the order
\* collection as it was.
C5_CreateOrderChecks ==
  [][LET order == orderObjs'[mockOrders'[Len(mockOrders')]]
     IN /\ OrderAdded =>
             /\ ret'.op = "createOrder" /\ ret'.status = "ok"
             /\ order.userId \in Ids(mockUsers, "user")
             /\ \A i \in 1..Len(order.items) :
                  order.items[i].productId \in Ids(mockProducts, "product")
        /\ (ret'.op = "createOrder" /\ ret'.status # "ok") =>
             /\ mockOrders' = mockOrders
             /\ orderObjs' = orderObjs
        /\ (ret'.op = "createOrder" /\ ret'.status = "notfound") =>
             /\ ret'.missing \in {"user", "product"}
             /\ ret'.id \notin Ids(IF ret'.missing = "user"
                                    THEN mockUsers ELSE mockProducts,
                                    ret'.missing)]_vars

\* a createOrder call has failed for a missing product after another call
\* made an order and a user was deleted
C5_Witness ==
  /\ ret.op = "createOrder"
  /\ ret.status = "notfound"
  /\ ret.missing = "product"
  /\ Len(mockOrders) > Len(InitOrders)
  /\ Len(mockUsers) < Len(InitUsers)

----------------------------------------------------------------------------
(* Properties of create, update, delete and get (UserSpec). *)

\* two records agree in every field but updatedAt
SameButUpdatedAt(a, b) == [a EXCEPT !.updatedAt = 0] = [b EXCEPT !.updatedAt = 0]

\* no id occurs twice in the collection
Distinct(data, kind) ==
  \A i, j \in 1..Len(data) : i # j => Obj(kind, data[i]).id # Obj(kind, data[j]).id

\* C6: updateUser with an empty partial, called with the id of the user that
\* createUser has just returned, succeeds and returns that user with only
\* updatedAt changed, and the user createUser stored is what the store then
\* holds in its place, again but for updatedAt.
C6_EmptyUpdateRoundTrip ==
  [][(/\ ret.op = "createUser" /\ ret.status = "ok"
      /\ ret'.op = "updateUser" /\ ret'.status # "transient"
      /\ ret'.id = ret.id /\ ret'.fields = {})
     => /\ ret'.status = "ok"
        /\ SameButUpdatedAt(userObjs'[ret'.ref], userObjs[ret.ref])
        /\ SameButUpdatedAt(userObjs'[mockUsers'[Len(mockUsers)]],
                            userObjs[ret.ref])]_vars

\* C7: a getUserById that follows a successful deleteUser of the same id,
\* with no call in between, fails with a not-found error.
C7_DeletedIsGone ==
  [][(/\ ret.op = "deleteUser" /\ ret.status = "ok"
      /\ ret'.op = "getUserById" /\ ret'.status # "transient"
      /\ ret'.id = ret.id)
     => ret'.status = "notfound"]_vars

\* C8: no two users share an id, no two products and no two orders.
C8_UniqueIds ==
  /\ Distinct(mockUsers, "user")
  /\ Distinct(mockProducts, "product")
  /\ Distinct(mockOrders, "order")

----------------------------------------------------------------------------
(* Ownership of the stored records (Spec). *)

\* the records the store holds, in the order of their collections
Stored ==
  <<[i \in 1..Len(mockUsers) |-> userObjs[mockUsers[i]]],
    [i \in 1..Len(mockProducts) |-> productObjs[mockProducts[i]]],
    [i \in 1..Len(mockOrders) |-> orderObjs[mockOrders[i]]]>>

\* C9: the records of a response are copies: when the caller assigns to a
\* field of one of them, every record of the store keeps its value, so a
\* later get or list returns what the store held before.
C9_ResponsesAreCopies ==
  [][(\E ref \in Handed(ret) : CallerWrites(ref)) => Stored' = Stored]_vars

----------------------------------------------------------------------------
(* Properties of the generation pipeline (PipelineSpec). *)

\* the entries of a log that are of one of the given kinds, in order
RECURSIVE Only(_, _)
Only(log, kinds) ==
  IF log = <<>> THEN <<>>
  ELSE IF Head(log).kind \in kinds
       THEN <<Head(log)>> \o Only(Tail(log), kinds)
       ELSE Only(Tail(log), kinds)

IsPrefix(s, t) == Len(s) <= Len(t) /\ s = SubSeq(t, 1, Len(s))

\* the stages in order: the progress step, its value, the adapter of the stage
Stages ==
  <<[step |-> "extracting", progress |-> 10, adapter |-> "extractProductInfo"],
    [step |-> "classifying", progress |-> 25, adapter |-> "classifyProduct"],
    [step |-> "designing", progress |-> 40, adapter |-> "generateDesignTheme"],
    [step |-> "content", progress |-> 55, adapter |-> "generateContent"],
    [step |-> "images", progress |-> 70, adapter |-> "processProductImages"],
    [step |-> "countdown", progress |-> 85, adapter |-> "createCountdownTimer"],
    [step |-> "form", progress |-> 95, adapter |-> "createCODForm"]>>

\* what a run without failure does, start to end
RECURSIVE StagesRun(_)
StagesRun(stages) ==
  IF stages = <<>> THEN <<>>
  ELSE <<Event("progress", Head(stages).step, Head(stages).progress, NoError),
         Invoked(Head(stages).adapter), Finished(Head(stages).adapter)>>
         \o StagesRun(Tail(stages))
FullRun ==
  <<Event("progress", "starting", 0, NoError)>> \o StagesRun(Stages)
    \o <<Event("progress", "completed", 100, NoError), Returned>>

\* C10: a run in which no stage has failed has delivered to its callback the
\* steps starting(0), extracting(10), classifying(25), designing(40),
\* content(55), images(70), countdown(85), form(95), completed(100) in this
\* order, as far as it has come, and all nine and no other once it has
\* returned; each adapter is invoked after its own step was delivered and the
\* adapter before it has finished; the data is returned after completed(100)
\* and not otherwise.
C10_NineStepsInOrder ==
  /\ (progressCallback /\ pc # "failed") => IsPrefix(trace, FullRun)
  /\ (progressCallback /\ pc = "done") =>
       /\ trace = FullRun
       /\ Len(Only(trace, {"progress"})) = 9
  /\ pc # "failed" =>
       IsPrefix(Only(trace, {"invoked", "finished", "returned"}),
                Only(FullRun, {"invoked", "finished", "returned"}))
  /\ (landingPage # NoData) <=> (pc = "done")
  /\ pc = "done" => trace[Len(trace)] = Returned

\* a run with a callback has returned the page of a product that Browse AI
\* scraped after several polls, one of whose two images was kept as it was,
\* with a fallback classification and the customizations of the request
C10_Witness ==
  /\ pc = "done"
  /\ progressCallback
  /\ attempts >= 2
  /\ landingPage.productInfo.source = "browseAi"
  /\ Len(landingPage.images) = 2
  /\ landingPage.images[1].cloudinaryUrl.kind = "secure_url"
  /\ landingPage.images[2].cloudinaryUrl.kind = "original"
  /\ landingPage.classification = "fallback"
  /\ landingPage.countdown = [hours |-> 48, urgencyLevel |-> "high"]

\* the progress callbacks delivered so far
Delivered == Only(trace, {"progress"})

\* the last entry of a log that has one
Last(log) == log[Len(log)]

\* C11: in a run, failing or not, no progress callback carries a progress
\* value lower than that of a callback delivered before it.
C11_ProgressNeverDrops ==
  \A i, j \in 1..Len(Delivered) :
    i < j => Delivered[i].progress <= Delivered[j].progress

\* the run got its product info from the fallback extractor
FromFallback == locals.productInfo.source = "serpApi"

\* C12: when the fallback extractor answers after the primary has failed,
\* the run goes on to the classifying step with the fallback's product info;
\* from then on only an error thrown by a later stage fails it, it can always
\* take its next step, and when it is done it has delivered completed(100)
\* and returned a LandingPageData that holds the fallback's product info.
C12_FallbackCarriesTheRun ==
  [][
      /\ (ScrapeFallback(TRUE) \/ ExtractFallback(TRUE)) =>
          /\ locals.caught # <<>>
          /\ locals.caught[1] \in
               {BrowseAiError, BrowseAiTaskFailed, BrowseAiTaskTimeout}
          /\ pc' = "classifyProduct"
          /\ FromFallback'
          /\ Last(trace') = Invoked("classifyProduct")
      /\ (FromFallback' /\ pc' = "failed") =>
          Last(trace').error \in {GroqApiError, TypeError}
      /\ (FromFallback' /\ pc' \notin {"failed", "done"}) =>
          (ENABLED PipelineNext)'
      /\ (FromFallback' /\ pc' = "done") =>
          /\ landingPage' # NoData
          /\ landingPage'.productInfo = [source |-> "serpApi", images |-> 0]
          /\ Last(trace') = Returned
          /\ progressCallback =>
               Last(Delivered') = Event("progress", "completed", 100, NoError)]_vars

\* a run with a callback is done whose product info the fallback extractor
\* gave on its second call, after the polling of Browse AI timed out
C12_Witness ==
  /\ pc = "done"
  /\ progressCallback
  /\ FromFallback
  /\ attempts = maxAttempts
  /\ Len(locals.caught) = 2
  /\ landingPage.productInfo.source = "serpApi"

C14_DefaultOnUnexpectedReply ==
  /\ \A value \in {locals.classification, locals.theme, locals.content} :
       value \in {"none", "parsed", "fallback"}
  /\ pc = "failed" => Last(trace).error # TypeError

\* the URL fields processProductImages derives for an image
Derived(image) ==
  {image.backgroundRemoved, image.cloudinaryUrl, image.optimizedUrl,
   image.thumbnailUrl}

\* C15: processProductImages has an entry for each image it has come to, in
\* the order of the input, and in an entry for which the background removal
\* or the upload failed every derived URL is the original URL.
C15_FailedImageKeepsOriginal ==
  /\ Len(processedImages) <= locals.productInfo.images
  /\ pc = "done" => Len(landingPage.images) = locals.productInfo.images
  /\ \A i \in 1..Len(processedImages) :
       LET image == processedImages[i]
       IN /\ image.original = Url("original", i)
          /\ (\/ image.backgroundRemoved = image.original
              \/ image.cloudinaryUrl = image.original)
             => Derived(image) = {image.original}

\* the run has failed after the extraction stage
FailedLater == pc = "failed" /\ locals.productInfo.source # "none"

----------------------------------------------------------------------------
(* C17-C19: order submission.                                              *)

\* a field value meets a rule of the published table: a required field is
\* present, and a present one has the length, the shape and the range asked
Satisfies(rule, value) ==
  LET has(key) == key \in DOMAIN rule
      present == IF has("min") THEN value # 0 ELSE value # <<>>
  IN /\ rule.required => present
     /\ present =>
          /\ has("minLength") => Len(value) >= rule.minLength
          /\ has("min") => value >= rule.min
          /\ has("max") => value <= rule.max
          /\ has("pattern") =>
               IF rule.pattern.kind = "email"
                 THEN \E at \in 2..(Len(value) - 2) :
                        /\ value[at] = "@"
                        /\ \A i \in 1..Len(value) :
                             value[i] = "@" => i = at
                        /\ \A i \in 1..Len(value) : value[i] \notin WhiteSpace
                        /\ \E dot \in (at + 2)..(Len(value) - 1) :
                             value[dot] = "."
                 ELSE /\ Len(value) = rule.pattern.count
                      /\ \A i \in 1..Len(value) : value[i] \in DecimalDigits

Violated(data) ==
  {f \in DOMAIN ValidationRules : ~Satisfies(ValidationRules[f], data[f])}

Submitted == response # NoResponse

\* C17: submitOrder reports success exactly when the form data meets every
\* rule of the table createCODForm publishes; a phone number of five digits
\* fails with a message on the phone, a quantity of 11 with one on the
\* quantity.
C17_SuccessIffRulesMet ==
  Submitted =>
    /\ response.success <=> Violated(formData) = {}
    /\ formData.phone = Text("1", 5) /\ Violated(formData) = {"phone"}
         => response.message = "Phone number must be 10 digits"
    /\ formData.quantity = 11 /\ Violated(formData) = {"quantity"}
         => response.message = "Quantity must be between 1 and 10"

C17_Witness ==
  /\ response.success
  /\ formData.email # <<>>
  /\ formData.quantity = 10
  /\ Len(processedOrders) = 1

\* the message validateCODForm has for a field
MessageOf ==
  [name     |-> "Name must be at least 2 characters long",
   phone    |-> "Phone number must be 10 digits",
   email    |-> "Invalid email format",
   address  |-> "Address must be at least 10 characters long",
   city     |-> "City is required",
   state    |-> "State is required",
   pincode  |-> "Pincode must be 6 digits",
   quantity |-> "Quantity must be between 1 and 10"]

\* the messages of the violated fields among the first n, in field order
RECURSIVE ViolationMessages(_, _)
ViolationMessages(data, n) ==
  IF n = 0 THEN <<>>
  ELSE IF Fields[n] \in Violated(data)
    THEN Append(ViolationMessages(data, n - 1), MessageOf[Fields[n]])
    ELSE ViolationMessages(data, n - 1)

\* C18: validation does not stop at the first violation: the one failure
\* message is made of one message for each violated field, all eight fields
\* being checked, joined by ', '; and when some field is violated no order id
\* is produced and no order is processed.
C18_AllViolationsReported ==
  Submitted /\ Violated(formData) # {} =>
    /\ ~response.success
    /\ response.message = Join(ViolationMessages(formData, Len(Fields)))
    /\ response.orderId = <<>>
    /\ processedOrders = <<>>

C18_Witness ==
  /\ Submitted
  /\ Violated(formData) = {"name", "email", "quantity"}
  /\ response.message =
       "Name must be at least 2 characters long, Invalid email format, Quantity must be between 1 and 10"

UpperAlphanumeric == {UpperCase36[k] : k \in 1..36}

\* id matches COD-[0-9A-Z]+-[0-9A-Z]{5}
OrderIdPattern(id) ==
  \E dash \in 6..Len(id) :
    /\ SubSeq(id, 1, 4) = <<"C", "O", "D", "-">>
    /\ id[dash] = "-"
    /\ \A i \in 5..(dash - 1) : id[i] \in UpperAlphanumeric
    /\ Len(id) = dash + 5
    /\ \A i \in (dash + 1)..Len(id) : id[i] \in UpperAlphanumeric

\* C19: every order id a successful submitOrder returns matches
\* COD-[0-9A-Z]+-[0-9A-Z]{5}: the random part has exactly five characters,
\* whatever the random source produces.
C19_OrderIdFormat ==
  response.success => OrderIdPattern(response.orderId)

\* the ids of the pattern are produced too: a random value with five or more
\* digits in radix 36 gives one
C19_SomeIdsMatch ==
  response.success /\ OrderIdPattern(response.orderId)

----------------------------------------------------------------------------
(* C20: the URL allowlist of useGenerateLandingPage.                       *)

EndsWith(s, suffix) ==
  /\ Len(suffix) <= Len(s)
  /\ SubSeq(s, Len(s) - Len(suffix) + 1, Len(s)) = suffix

\* the URL parses and its hostname is a supported domain or a subdomain of one
Allowlisted(url) ==
  /\ Hostname(url) # <<>>
  /\ \E k \in 1..Len(SupportedDomains) :
       \/ Hostname(url) = SupportedDomains[k]
       \/ EndsWith(Hostname(url), <<".">> \o SupportedDomains[k])

\* generate has been called and mutationFn has run up to its first await
Generating == pc # "idle" \/ mutation.status # "idle"

\* C20: generate starts the pipeline if and only if the URL parses and its
\* hostname is one of the eight supported domains or a subdomain of one;
\* otherwise it fails with the unsupported-URL error before any progress
\* callback and before any adapter is called.
C20_AllowlistGuardsThePipeline ==
  Generating =>
    /\ pc # "idle" <=> Allowlisted(productUrl)
    /\ ~Allowlisted(productUrl) =>
         /\ mutation = [status |-> "error", error |-> UnsupportedUrl]
         /\ trace = <<>>

\* what the code does ensure: a URL validateProductUrl refuses starts nothing,
\* and an allowlisted one starts the pipeline
C20_RefusedStartsNothing ==
  Generating =>
    /\ Allowlisted(productUrl) => pc # "idle"
    /\ ~ValidateProductUrl(productUrl) =>
         /\ mutation = [status |-> "error", error |-> UnsupportedUrl]
         /\ trace = <<>>
         /\ pc = "idle"

----------------------------------------------------------------------------
(* C21: the list operations are reads.                                     *)

ListOperations == {"getUsers", "getProducts", "getOrders"}

\* the step is a call of op: calls set ret and leave the caller's budget of
\* writes alone or lower it with a successful change
Called(ops) == ret'.op \in ops /\ ret' # ret

\* C21: getUsers, getProducts and getOrders are pure reads: whatever the
\* QueryParams, sortBy included, the three collections hold the same records
\* in the same order after the call as before it.
C21_ListsArePureReads ==
  [][Called(ListOperations) => storeVars' = storeVars]_vars

\* an unfiltered, sorted list was handed out in another order than the
\* collection's
C21_Witness ==
  /\ ret.op = "getUsers"
  /\ ret.status = "ok"
  /\ ret.params.sortBy # ""
  /\ ret.params.search = <<>>
  /\ Len(ret.list) = 2
  /\ ret.list # SubSeq(mockUsers, 3, 4)

----------------------------------------------------------------------------
(* C22: what an update changes.                                            *)

UpdateOperations == {"updateUser", "updateProduct", "updateOrder"}

\* from the collection data over the heap objs to the collection after over
\* the heap objsAfter, one record of the given id has changed, in the given
\* fields and updatedAt at most, and nothing else has
OneRecordChanged(data, objs, after, objsAfter, id, fields) ==
  /\ Len(after) = Len(data)
  /\ \A r \in 1..Len(objs) : objsAfter[r] = objs[r]
  /\ \E i \in 1..Len(data) :
       /\ objs[data[i]].id = id
       /\ \A j \in 1..Len(data) : j # i => after[j] = data[j]
       /\ DOMAIN objsAfter[after[i]] = DOMAIN objs[data[i]]
       /\ \A f \in DOMAIN objs[data[i]] \ (fields \cup {"updatedAt"}) :
            objsAfter[after[i]][f] = objs[data[i]][f]

\* C22: a successful update(id, partial) changes only the target record, and
\* in it only the fields present in partial and updatedAt: the other fields
\* keep their values, the record keeps its position, and all other records
\* and the lengths of the collections are as before.
C22_UpdateChangesOneRecord ==
  [][
    Called(UpdateOperations) /\ ret'.status = "ok" =>
      CASE ret'.kind = "user" ->
             /\ OneRecordChanged(mockUsers, userObjs, mockUsers', userObjs',
                                 ret'.id, ret'.fields)
             /\ UNCHANGED <<productObjs, orderObjs, mockProducts, mockOrders>>
        [] ret'.kind = "product" ->
             /\ OneRecordChanged(mockProducts, productObjs, mockProducts',
                                 productObjs', ret'.id, ret'.fields)
             /\ UNCHANGED <<userObjs, orderObjs, mockUsers, mockOrders>>
        [] ret'.kind = "order" ->
             /\ OneRecordChanged(mockOrders, orderObjs, mockOrders', orderObjs',
                                 ret'.id, ret'.fields)
             /\ UNCHANGED <<userObjs, productObjs, mockUsers, mockProducts>>
  ]_vars

C22_Witness ==
  /\ ret.op = "updateProduct"
  /\ ret.status = "ok"
  /\ ret.fields = {"price"}
  /\ mockProducts[2] = ret.ref
  /\ productObjs[ret.ref].price = 100
  /\ productObjs[ret.ref].updatedAt = Clock0
  /\ Len(mockProducts) = Len(InitProducts)

----------------------------------------------------------------------------
(* C23, C29: the hook useGenerateLandingPage and the page.                 *)

\* the step is one of a run that is no longer the last one started
StaleRunActs == \E run \in 1..(Len(runs) - 1) : runs'[run] # runs[run]

\* C23: when generate is invoked while an earlier run is in flight, the
\* earlier run is superseded: what it reports after the new run has started
\* changes neither the observed progress nor landingPageData.
C23_StaleRunsIgnored ==
  [][StaleRunActs => UNCHANGED <<progressState, landingPageData>>]_vars

\* the success handlers of the run whose result is held have run, and the
\* page is still in the step 'generating'
SettledSuccess ==
  /\ landingPageData # 0
  /\ runs[landingPageData].status = "success"
  /\ currentStep = "generating"

\* C29: after a run succeeds while the page is in the step 'generating', in
\* the settled state that follows the success handlers the condition that
\* shows 'Preview Landing Page' holds, so that 'preview' and 'published' can
\* be reached without a reset.
C29_PreviewAfterSuccess == SettledSuccess => PreviewShown

----------------------------------------------------------------------------
(* C24: the polling of the scraping task ends.                             *)

Range(s) == {s[i] : i \in 1..Len(s)}

\* C24: pollTaskCompletion never waits forever: it makes at most 30 polls;
\* it returns the result on status 'successful', fails at once on status
\* 'failed', and fails with the timeout error when 30 polls have seen
\* neither.  attempts counts the polls that saw neither.
C24_PollingIsBounded ==
  /\ attempts <= 30
  /\ pc = "pollTaskCompletion" => attempts < 30
  /\ attempts = 30 =>
       /\ BrowseAiTaskTimeout \in Range(locals.caught)
       /\ locals.productInfo.source # "browseAi"
  /\ attempts < 30 => BrowseAiTaskTimeout \notin Range(locals.caught)
  /\ BrowseAiTaskFailed \in Range(locals.caught) =>
       locals.productInfo.source # "browseAi"

\* thirty polls were answered 'in-progress' and the fallback has taken over
C24_Witness ==
  /\ attempts = 30
  /\ locals.caught = <<BrowseAiTaskTimeout>>
  /\ locals.productInfo.source = "serpApi"

----------------------------------------------------------------------------
(* C25: a call that fails writes nothing.                                  *)

Failures == {"transient", "notfound"}

\* C25: when an operation of the mock API fails, with the injected
\* transient error or because a record it names does not exist (createOrder
\* with a missing product or user included), the three collections and
\* their records are exactly as they were before the call.
C25_FailureLeavesTheStore ==
  [][
      ret'.status \in Failures => storeVars' = storeVars
  ]_vars

\* createOrder has been refused for a user that does not exist, every
\* product of the request being present
C25_Witness ==
  /\ ret.op = "createOrder"
  /\ ret.status = "notfound"
  /\ ret.missing = "user"

----------------------------------------------------------------------------
(* C26: the dashboard statistics are a read.                               *)

\* C26: dashboardApi.getStats leaves the three collections as they were,
\* the order of their elements included, so that a getOrders without sortBy
\* returns the same sequence before and after a call of getStats.
C26_StatsIsARead ==
  [][
      Called({"getStats"}) => storeVars' = storeVars
  ]_vars

----------------------------------------------------------------------------
(* C27: the fallback extractor runs once, after the scraper failed.        *)

\* what the scraper throws into its own catch
ScraperErrors == {BrowseAiError, BrowseAiTaskFailed, BrowseAiTaskTimeout}

\* a call of serpApiService.extractProductInfo is in flight
FallbackInFlight == pc \in {"scrapeFallback", "extractFallback"}

\* a call of serpApiService.extractProductInfo made earlier in the run has
\* thrown
FallbackHasThrown == SerpApiFailure(SerpApiError) \in Range(locals.caught)

\* C27: in one generateLandingPage run serpApiService.extractProductInfo is
\* invoked only after the primary scraper has failed, and at most once,
\* whatever the outcome of the scraper and of the fallback: no call of it is
\* in flight, and no result of it is held, unless the scraper has thrown,
\* and no call of it is in flight after one has thrown.
C27_FallbackAtMostOnce ==
  /\ FallbackInFlight \/ locals.productInfo.source = "serpApi" =>
       /\ locals.caught # <<>>
       /\ locals.caught[1] \in ScraperErrors
  /\ FallbackInFlight => ~FallbackHasThrown

----------------------------------------------------------------------------
(* C30: the orders refer to records that exist.                            *)

\* C30: in every state reachable from the initial mock data by create,
\* update and delete operations, the userId of every stored order is the id
\* of a record of the user collection and the productId of every item of a
\* stored order is the id of a record of the product collection.
C30_OrdersReferToRecords ==
  \A o \in 1..Len(mockOrders) :
    LET order == orderObjs[mockOrders[o]]
    IN /\ Find(mockUsers, "user", order.userId) # 0
       /\ \A i \in 1..Len(order.items) :
            Find(mockProducts, "product", order.items[i].productId) # 0

----------------------------------------------------------------------------
(* C28: calls issued together act one at a time (ConcurrentSpec).          *)

\* the mock data, before any call
InitialStore ==
  [mockUsers |-> [i \in 1..Len(InitUsers) |-> i], userObjs |-> InitUsers,
   clock |-> Clock0]

\* the call that resumed k-th
Turn(k) == inFlight[CHOOSE c \in Done : inFlight[c].turn = k]

\* The calls that have resumed, applied to the store one at a time, in the
\* order they resumed, each issued only when the one before it has settled.
RECURSIVE OneAtATime(_, _)
OneAtATime(store, k) ==
  IF k > Cardinality(Done) THEN store
  ELSE LET alone == [Turn(k) EXCEPT !.found = FindIndexIn(store, Turn(k).id)]
       IN OneAtATime(AfterDelay(store, alone, alone.status = "transient").store, k + 1)

\* the user of an id as the store holds it
UserOf(id) == userObjs[mockUsers[FindIndexIn(UserStore, id)]]

\* the successful calls of an operation that have run to their end
Succeeded(op) == {c \in Done : inFlight[c].op = op /\ inFlight[c].status = "ok"}

\* the successful calls of an operation on an id
SucceededOn(op, id) == {c \in Succeeded(op) : inFlight[c].id = id}

\* how many records of an id a store holds
Held(store, id) ==
  Cardinality({i \in 1..Len(store.mockUsers) :
                 store.userObjs[store.mockUsers[i]].id = id})

\* C28: every user operation has one suspension point, the delay, before
\* any access to the store, so its check and its write are one uninterrupted
\* step: however calls issued together interleave, the store is what applying
\* them one at a time in some order gives.  Two updates that set different
\* fields of one record both persist, and an update racing with a delete of
\* its id never brings the deleted record back: the store holds as many
\* records of an id as were there or created, less those deleted.
C28_CallsActOneAtATime ==
  /\ UserStore = OneAtATime(InitialStore, 1)
  /\ \A a, b \in Succeeded("updateUser") :
       /\ inFlight[a].id = inFlight[b].id
       /\ inFlight[a].userData.fields \cap inFlight[b].userData.fields = {}
       /\ \A c \in Done \ {a, b} : inFlight[c].id # inFlight[a].id
       => /\ FindIndexIn(UserStore, inFlight[a].id) # 0
          /\ \A f \in inFlight[a].userData.fields :
               UserOf(inFlight[a].id)[f] = inFlight[a].userData.vals[f]
          /\ \A f \in inFlight[b].userData.fields :
               UserOf(inFlight[b].id)[f] = inFlight[b].userData.vals[f]
  /\ \A id \in {inFlight[c].id : c \in 1..Len(inFlight)} :
       Held(UserStore, id) =
         Held(InitialStore, id) + Cardinality(SucceededOn("createUser", id))
                                - Cardinality(SucceededOn("deleteUser", id))

\* a delete and an update of the same user were waiting together: the
\* delete resumed first and the update then found no record
C28_Witness ==
  \E d \in Succeeded("deleteUser"), u \in Done :
    /\ inFlight[d].raced
    /\ inFlight[u].op = "updateUser"
    /\ inFlight[u].id = inFlight[d].id
    /\ inFlight[u].found # 0
    /\ inFlight[u].status = "notfound"
    /\ inFlight[u].turn > inFlight[d].turn

====
